---- MODULE Spec2Model ----
(***************************************************************************)
(* A model of the data-collection core of client-project-dashboard:        *)
(*   - src/data_fetcher.py : make_request and the source adapters          *)
(*   - src/dashboard.py    : the SQLite store and the collection pass      *)
(*                           fetch_all_data_with_limits                    *)
(*   - src/config.py       : the client table and the Kaito credentials    *)
(*                                                                         *)
(* JSON values are tagged records; a Python exception is the value         *)
(* Raise(exc), which every Python operation below propagates.              *)
(***************************************************************************)
EXTENDS Integers, Sequences, FiniteSets, TLC

VARIABLES
    bearer_token,        \* config.KAITO_CONFIG['bearer_token'] ("" when the environment sets none)
    config,              \* config.CLIENTS: client index -> identifiers
    table_exists,        \* whether the store holds the price_history table
    client_data,         \* table client_data: the Snapshot rows, in insertion order
    fetch_history,       \* table fetch_history: the FetchRun rows, in insertion order
    price_history,       \* table price_history: the HistoricalPricePoint rows
    now,                 \* wall clock, in half seconds
    program,             \* which entry point runs
    pc,                  \* position of the running routine
    idx,                 \* index of the client being processed
    step,                \* index in Schedule of the data type being processed
    result,              \* what the adapter call in flight returned or raised
    total_apis_called,   \* local of fetch_all_data_with_limits
    errors_count,        \* local of fetch_all_data_with_limits
    calls,               \* history: every adapter invocation, in order
    faults,              \* history: how many calls of the pass met a faulty answer or a storage failure
    inv,                 \* the last operation made on its own: an adapter invocation, a store call
    latest               \* the last answer of get_latest_data (row ids)

vars == << bearer_token, config, table_exists, client_data,
           fetch_history, price_history, now, program, pc, idx, step,
           result, total_apis_called, errors_count, calls, faults, inv, latest >>

(***************************************************************************)
(* JSON values and the Python operations the adapters apply to them.       *)
(***************************************************************************)

\* The keys the adapters read from upstream JSON objects.
Keys ==
    { "result", "tickerData", "mindshare", "fullname",
      "summaryData", "engagement", "smartEngagement", "document",
      "coin", "usd", "usd_market_cap", "usd_24h_vol", "usd_24h_change",
      "market_data", "community_data", "market_cap", "market_cap_rank",
      "watchlist_portfolio_users", "telegram_channel_user_count",
      "reddit_subscribers", "sentiment_votes_up_percentage",
      "sentiment_votes_down_percentage", "asset_platform_id",
      "contract_address", "categories",
      "tvl", "totalLiquidityUSD", "logo", "twitter", "name", "category",
      "data", "project", "tvlUsd", "apy",
      "collections", "floorAsk", "price", "amount", "native", "volume",
      "1day", "7day", "ownerCount", "tokenCount",
      "prices", "total_volumes",
      "proposals", "state", "voterCount", "treasuryValue", "stablecoin",
      "coins", "id", "developer_data", "twitter_followers",
      "reddit_accounts_active_48h", "telegram_users", "forks", "stars",
      "subscribers", "github_commits_4w", "developer_score", "community_score",
      "raydium", "pudgy-penguins", "sophon", "kaito" }

Absent == [t |-> "absent"]
JNull == [t |-> "null"]
JNum(n) == [t |-> "num", n |-> n]
JStr(s) == [t |-> "str", s |-> s]
JList(l) == [t |-> "list", l |-> l]
JObj(pairs) == [t |-> "obj", o |-> [k \in Keys |-> IF k \in DOMAIN pairs THEN pairs[k] ELSE Absent]]
JEmpty == [t |-> "obj", o |-> [k \in Keys |-> Absent]]

\* A raised Python exception, as a value.
Raise(exc) == [t |-> "raise", exc |-> exc]
IsRaise(v) == v.t = "raise"

\* d.get(k, default)
PyGet(d, k, default) ==
    IF IsRaise(d) THEN d
    ELSE IF d.t # "obj" THEN Raise("AttributeError")
    ELSE IF d.o[k] = Absent THEN default
    ELSE d.o[k]

\* d[k] with a string key
PyItem(d, k) ==
    IF IsRaise(d) THEN d
    ELSE IF d.t = "obj" THEN (IF d.o[k] = Absent THEN Raise("KeyError") ELSE d.o[k])
    ELSE Raise("TypeError")

\* k in d, with a string key: TRUE, FALSE or a raised TypeError. A JSON string
\* is searched for the substring; the bodies of the model hold no string that
\* contains a key.
JBool(b) == [t |-> "bool", b |-> b]
PyIn(k, d) ==
    IF IsRaise(d) THEN d
    ELSE IF d.t = "obj" THEN JBool(d.o[k] # Absent)
    ELSE IF d.t = "list" THEN JBool(\E i \in 1..Len(d.l) : d.l[i] = JStr(k))
    ELSE IF d.t = "str" THEN JBool(FALSE)
    ELSE Raise("TypeError")
IsTrue(b) == b.t = "bool" /\ b.b

\* A string whose characters matter is held as the sequence of them.
JText(cs) == [t |-> "str", cs |-> cs]
IsText(v) == v.t = "str" /\ "cs" \in DOMAIN v
StrEmpty(v) == IF IsText(v) THEN v.cs = << >> ELSE v.s = ""

\* bool(v)
Truthy_is_not_none(v) == v.t # "null"
Truthy(v) ==
    CASE v.t = "null" -> FALSE
      [] v.t = "num" -> v.n # 0
      [] v.t = "str" -> ~StrEmpty(v)
      [] v.t = "list" -> Len(v.l) > 0
      [] v.t = "obj" -> \E k \in Keys : v.o[k] # Absent
      [] OTHER -> TRUE

\* v[-1] of a value that is truthy
PyLast(v) ==
    IF IsRaise(v) THEN v
    ELSE IF v.t = "list" THEN v.l[Len(v.l)]
    ELSE IF v.t = "str" THEN JStr("c")
    ELSE IF v.t = "obj" THEN Raise("KeyError")
    ELSE Raise("TypeError")

\* v[i] with an integer index i >= 0 (Python counts from 0)
PyIndex(v, i) ==
    IF IsRaise(v) THEN v
    ELSE IF v.t = "list" THEN (IF i < Len(v.l) THEN v.l[i + 1] ELSE Raise("IndexError"))
    ELSE IF v.t = "str" THEN (IF StrEmpty(v) THEN Raise("IndexError") ELSE JStr("c"))
    ELSE IF v.t = "obj" THEN Raise("KeyError")
    ELSE Raise("TypeError")

\* len(v)
PyLen(v) ==
    IF IsRaise(v) THEN v
    ELSE IF v.t = "list" THEN JNum(Len(v.l))
    ELSE IF v.t = "str" THEN JNum(IF StrEmpty(v) THEN 0 ELSE 1)
    ELSE IF v.t = "obj" THEN JNum(Cardinality({k \in Keys : v.o[k] # Absent}))
    ELSE Raise("TypeError")

\* The elements "for x in v" visits, or the TypeError of a value that is not
\* iterable. An object yields its keys and a string its characters: strings
\* either way, of which one stands for all.
PyIter(v) ==
    IF IsRaise(v) THEN v
    ELSE IF v.t = "list" THEN v
    ELSE IF v.t \in {"str", "obj"} THEN (IF Truthy(v) THEN JList(<< JStr("c") >>) ELSE JList(<< >>))
    ELSE Raise("TypeError")

\* float(v), and the number a value must be for arithmetic
PyFloat(v) ==
    IF IsRaise(v) THEN v
    ELSE IF v.t = "num" THEN v
    ELSE IF v.t = "str" THEN Raise("ValueError")
    ELSE Raise("TypeError")
PyNum(v) ==
    IF IsRaise(v) THEN v
    ELSE IF v.t = "num" THEN v
    ELSE Raise("TypeError")

\* The quotient num/den of a true division, kept exact.
Rat(num, den) == [t |-> "rat", num |-> num, den |-> den]

\* sum(vals) of a sequence of numbers
RECURSIVE SumN(_)
SumN(vals) == IF vals = << >> THEN 0 ELSE vals[1].n + SumN(Tail(vals))

\* The first raised exception among the values of a sequence, in evaluation
\* order; Absent when none raised.
FirstRaise(vals) ==
    IF \E i \in 1..Len(vals) : IsRaise(vals[i])
    THEN vals[CHOOSE i \in 1..Len(vals) : IsRaise(vals[i]) /\ \A j \in 1..(i-1) : ~IsRaise(vals[j])]
    ELSE Absent

(***************************************************************************)
(* The HTTP client adapter.                                                *)
(***************************************************************************)

Envelope(success, data, error) == [success |-> success, data |-> data, error |-> error]
Failure(msg) == Envelope(FALSE, JNull, JStr(msg))
Return(env) == [t |-> "return", env |-> env]

\* The body of a response that is not JSON, with what response.json() raises
\* on it: requests.exceptions.JSONDecodeError, a RequestException, in requests
\* 2.27 and later, and a plain ValueError before.
NotJson(exc) == [t |-> "notjson", exc |-> exc]

\* What the network does with one GET: a timeout, a connection error, or a
\* response with a status and a body.
Up(kind, status, body) == [kind |-> kind, status |-> status, body |-> body]
UpOk(body) == Up("http", 200, body)

\* The headers make_request sends: always the Kaito ones, built from
\* KAITO_CONFIG, whatever the caller passed.
headers1 == [authorization |-> bearer_token, user_agent |-> "Mozilla", user_id |-> "uid"]
NoHeaders == [t |-> "null"]

\* requests.Response.raise_for_status raises HTTPError for 400..599 only.
raise_for_status(status) == status >= 400 /\ status < 600

\* make_request(url, params, headers): one GET; a RequestException becomes a
\* failure envelope, any other exception propagates. The answer holds what
\* the caller gets (res) and the requests sent (reqs): the URL, the headers
\* the caller passed and the headers that went out.
make_request(url, headers, up) ==
    LET req == [url |-> url, passed |-> headers, headers |-> headers1]
        res ==
            CASE up.kind = "timeout" -> Return(Failure("Read timed out"))
              [] up.kind = "conn" -> Return(Failure("Connection refused"))
              [] OTHER ->
                    IF raise_for_status(up.status) THEN Return(Failure("HTTP Error"))
                    ELSE IF up.body.t = "notjson"
                         THEN (IF up.body.exc = "RequestException"
                               THEN Return(Failure("Expecting value"))
                               ELSE Raise(up.body.exc))
                    ELSE Return(Envelope(TRUE, up.body, JNull))
    IN [res |-> res, reqs |-> << req >>]

\* An adapter's answer when make_request did not succeed: the failure envelope
\* or the exception, unchanged.
Failed(r) == IsRaise(r.res) \/ ~r.res.env.success

\* An adapter's answer computed from a successful make_request r: the
\* exception raised while computing the payload fields (in evaluation order),
\* if any, and the success envelope otherwise.
Payload(r, fields, payload) ==
    IF FirstRaise(fields) # Absent
    THEN [res |-> FirstRaise(fields), reqs |-> r.reqs]
    ELSE [res |-> Return(Envelope(TRUE, payload, JNull)), reqs |-> r.reqs]

NoMatch_zero_success(r, msg) ==
    [ res |-> Return(Envelope(TRUE, [ total_staking_tvl |-> JNum(0), average_apy |-> JNum(0),
                                      pool_count |-> JNum(0) ], JNull)),
      reqs |-> r.reqs ]
NoMatch(r, msg) == [res |-> Return(Failure(msg)), reqs |-> r.reqs]
Raised(r, exc) == [res |-> exc, reqs |-> r.reqs]

(***************************************************************************)
(* The source adapters. Each takes its identifier and the upstream's       *)
(* answer to its one GET.                                                  *)
(***************************************************************************)

TrendLen_one_less == 7 - 1
TrendLen == 7

fetch_kaito_mindshare_data(ticker, up) ==
    IF bearer_token = ""
    THEN [res |-> Return(Failure("Kaito bearer token not configured")), reqs |-> << >>]
    ELSE
    LET r == make_request("kaito/ticker_mindshare_line", headers1, up) IN
    IF Failed(r) THEN r ELSE
    LET data == r.res.env.data
        has1 == PyIn("result", data)
        inner == PyItem(data, "result")
        has2 == PyIn("result", inner)
        mindshare_series == PyItem(inner, "result")
        ticker_info == PyGet(data, "tickerData", JEmpty)
        entries == PyIter(mindshare_series)
        mindshare_values ==
            IF IsRaise(entries) THEN << entries >>
            ELSE [i \in 1..Len(entries.l) |->
                    PyFloat(PyGet(entries.l[i], "mindshare", JNum(0)))]
        n == Len(mindshare_values)
        fullname == PyGet(ticker_info, "fullname", ticker)
    IN  IF IsRaise(has1) THEN Raised(r, has1)
        ELSE IF ~IsTrue(has1) THEN NoMatch(r, "No mindshare data found in response")
        ELSE IF IsRaise(has2) THEN Raised(r, has2)
        ELSE IF ~IsTrue(has2) THEN NoMatch(r, "No mindshare data found in response")
        ELSE Payload(r,
                << mindshare_series, ticker_info >> \o mindshare_values \o << fullname >>,
                [ current_mindshare |-> IF n > 0 THEN mindshare_values[n] ELSE JNum(0),
                  avg_mindshare |-> IF n > 0 THEN Rat(SumN(mindshare_values), n) ELSE JNum(0),
                  mindshare_trend |->
                      IF n >= TrendLen THEN SubSeq(mindshare_values, n - TrendLen + 1, n)
                      ELSE mindshare_values,
                  ticker_fullname |-> fullname,
                  data_points |-> PyLen(mindshare_series) ])

\* max(engagement, 1) and smart_engagement / that
PyMax1(v) == IF IsRaise(PyNum(v)) THEN PyNum(v) ELSE IF v.n > 1 THEN v ELSE JNum(1)
PyDiv(a, b) ==
    IF IsRaise(b) THEN b
    ELSE IF IsRaise(PyNum(a)) THEN PyNum(a)
    ELSE Rat(a.n, b.n)

fetch_kaito_engagement_data(ticker, up) ==
    IF bearer_token = ""
    THEN [res |-> Return(Failure("Kaito bearer token not configured")), reqs |-> << >>]
    ELSE
    LET r == make_request("kaito/ticker_engagement", headers1, up) IN
    IF Failed(r) THEN r ELSE
    LET data == r.res.env.data
        has == PyIn("summaryData", data)
        summary == PyItem(data, "summaryData")
        engagement == PyGet(summary, "engagement", JNum(1))
        smart_engagement == PyGet(summary, "smartEngagement", JNum(0))
        total_documents == PyGet(summary, "document", JNum(0))
        engagement_rate == PyDiv(smart_engagement, PyMax1(engagement))
    IN  IF IsRaise(has) THEN Raised(r, has)
        ELSE IF ~IsTrue(has) THEN NoMatch(r, "No engagement data found in response")
        ELSE Payload(r,
                << summary, engagement, smart_engagement, total_documents, engagement_rate >>,
                [ total_documents |-> total_documents,
                  total_engagement |-> engagement,
                  smart_engagement |-> smart_engagement,
                  engagement_rate |-> engagement_rate ])

fetch_coingecko_price_data(coin_id, up) ==
    LET r == make_request("coingecko/simple/price", NoHeaders, up) IN
    IF Failed(r) THEN r ELSE
    LET data == r.res.env.data
        has == PyIn(coin_id.s, data)
        coin_data == PyItem(data, coin_id.s)
        price == PyGet(coin_data, "usd", JNum(0))
        market_cap == PyGet(coin_data, "usd_market_cap", JNum(0))
        volume_24h == PyGet(coin_data, "usd_24h_vol", JNum(0))
        price_change_24h == PyGet(coin_data, "usd_24h_change", JNum(0))
    IN  IF IsRaise(has) THEN Raised(r, has)
        ELSE IF ~IsTrue(has) THEN NoMatch(r, "No price data found for coin_id")
        ELSE Payload(r,
                << coin_data, price, market_cap, volume_24h, price_change_24h >>,
                [ price |-> price, market_cap |-> market_cap,
                  volume_24h |-> volume_24h, price_change_24h |-> price_change_24h ])

fetch_coingecko_comprehensive_data(coin_id, up) ==
    LET r == make_request("coingecko/coins", NoHeaders, up) IN
    IF Failed(r) THEN r ELSE
    LET data == r.res.env.data
        market_data == PyGet(data, "market_data", JEmpty)
        community_data == PyGet(data, "community_data", JEmpty)
        holder_count == PyGet(data, "watchlist_portfolio_users", JNum(0))
        market_cap == PyGet(PyGet(market_data, "market_cap", JEmpty), "usd", JNum(0))
        market_cap_rank == PyGet(data, "market_cap_rank", JNum(0))
        telegram_users == PyGet(community_data, "telegram_channel_user_count", JNum(0))
        reddit_subscribers == PyGet(community_data, "reddit_subscribers", JNum(0))
        sentiment_positive == PyGet(data, "sentiment_votes_up_percentage", JNum(0))
        sentiment_negative == PyGet(data, "sentiment_votes_down_percentage", JNum(0))
        platform == PyGet(data, "asset_platform_id", JStr(""))
        contract_address == PyGet(data, "contract_address", JStr(""))
        categories == PyGet(data, "categories", JList(<< >>))
    IN  Payload(r,
            << market_data, community_data, holder_count, market_cap, market_cap_rank,
               telegram_users, reddit_subscribers, sentiment_positive,
               sentiment_negative, platform, contract_address, categories >>,
            [ holder_count |-> holder_count, market_cap |-> market_cap,
              market_cap_rank |-> market_cap_rank, telegram_users |-> telegram_users,
              reddit_subscribers |-> reddit_subscribers,
              sentiment_positive |-> sentiment_positive,
              sentiment_negative |-> sentiment_negative, platform |-> platform,
              contract_address |-> contract_address, categories |-> categories ])

\* v or 0
PyOr0(v) == IF IsRaise(v) THEN v ELSE IF Truthy(v) THEN v ELSE JNum(0)

fetch_defillama_protocol_data(protocol_slug, up) ==
    LET r == make_request("llama/protocol", NoHeaders, up) IN
    IF Failed(r) THEN r ELSE
    LET data == r.res.env.data
        tvl_data == PyGet(data, "tvl", JList(<< >>))
        latest_tvl ==
            IF IsRaise(tvl_data) THEN tvl_data
            ELSE IF ~Truthy(tvl_data) THEN JNum(0)
            ELSE IF IsRaise(PyLen(tvl_data)) THEN PyLen(tvl_data)
            ELSE IF ~(PyLen(tvl_data).n > 0) THEN JNum(0)
            ELSE PyOr0(PyGet(PyLast(tvl_data), "totalLiquidityUSD", JNum(0)))
        logo_url == PyGet(data, "logo", JStr(""))
        twitter_handle == PyGet(data, "twitter", JStr(""))
        protocol_name == PyGet(data, "name", JStr("Unknown"))
        category == PyGet(data, "category", JStr("DeFi"))
    IN  Payload(r,
            << tvl_data, latest_tvl, logo_url, twitter_handle, protocol_name, category >>,
            [ tvl |-> latest_tvl, logo_url |-> logo_url, twitter_handle |-> twitter_handle,
              protocol_name |-> protocol_name, category |-> category ])

(* Strings as character sequences: str.lower, "in", replace('-', ''), split('-') *)
ToLower == [A |-> "a", B |-> "b", R |-> "r"]
LowerChar(c) == IF c \in DOMAIN ToLower THEN ToLower[c] ELSE c
Lower(cs) == [i \in 1..Len(cs) |-> LowerChar(cs[i])]
Contains(sub, cs) ==
    \E i \in 0..(Len(cs) - Len(sub)) : SubSeq(cs, i + 1, i + Len(sub)) = sub
IsNotHyphen(c) == c # "-"
StripHyphens(cs) == SelectSeq(cs, IsNotHyphen)
RECURSIVE SplitHyphen(_)
SplitHyphen(cs) ==
    IF \A i \in 1..Len(cs) : cs[i] # "-" THEN << cs >>
    ELSE LET h == CHOOSE i \in 1..Len(cs) : cs[i] = "-" /\ \A j \in 1..(i - 1) : cs[j] # "-"
         IN << SubSeq(cs, 1, h - 1) >> \o SplitHyphen(SubSeq(cs, h + 1, Len(cs)))

\* The characters of a string; a string held whole counts as one character.
TextOf(v) == IF IsText(v) THEN v.cs ELSE << v.s >>

\* v.lower() of a value: a string has the method, nothing else has
PyLower(v) ==
    IF IsRaise(v) THEN v
    ELSE IF IsText(v) THEN JText(Lower(v.cs))
    ELSE IF v.t = "str" THEN v
    ELSE Raise("AttributeError")

\* The pools of the primary rule and of the fallback rule, as indices
PrimaryMatch_one_way(slug, project_name) ==
    \/ Contains(slug, project_name)
    \/ StripHyphens(slug) = StripHyphens(project_name)
PrimaryMatch(slug, project_name) ==
    \/ Contains(slug, project_name)
    \/ Contains(project_name, slug)
    \/ StripHyphens(slug) = StripHyphens(project_name)
FallbackMatch(slug, project_name) ==
    \E w \in 1..Len(SplitHyphen(slug)) : Contains(SplitHyphen(slug)[w], project_name)
\* The indices at which a sequence of booleans holds TRUE, in order
RECURSIVE Filter(_)
Filter(flags) ==
    IF flags = << >> THEN << >>
    ELSE LET n == Len(flags)
             front == Filter(SubSeq(flags, 1, n - 1))
         IN IF flags[n] THEN Append(front, n) ELSE front

fetch_defillama_yields_data(protocol_slug, up) ==
    LET r == make_request("yields/pools", NoHeaders, up) IN
    IF Failed(r) THEN r ELSE
    LET all_pools == PyGet(r.res.env.data, "data", JList(<< >>))
        pools == PyIter(all_pools)
        slug == Lower(TextOf(protocol_slug))
        names == IF IsRaise(pools) THEN << pools >>
                 ELSE [i \in 1..Len(pools.l) |->
                         PyLower(PyGet(pools.l[i], "project", JText(<< >>)))]
        primary == Filter([i \in 1..Len(names) |-> PrimaryMatch(slug, TextOf(names[i]))])
        protocol_pools ==
            IF primary # << >> THEN primary
            ELSE Filter([i \in 1..Len(names) |-> FallbackMatch(slug, TextOf(names[i]))])
        tvls == [j \in 1..Len(protocol_pools) |->
                    PyNum(PyGet(pools.l[protocol_pools[j]], "tvlUsd", JNum(0)))]
        apys == [j \in 1..Len(protocol_pools) |->
                    PyNum(PyGet(pools.l[protocol_pools[j]], "apy", JNum(0)))]
    IN  IF FirstRaise(<< all_pools >> \o names) # Absent
        THEN Raised(r, FirstRaise(<< all_pools >> \o names))
        ELSE IF protocol_pools = << >>
        THEN NoMatch(r, "No yield pools found for protocol_slug")
        ELSE Payload(r, tvls \o apys,
                [ total_staking_tvl |-> JNum(SumN(tvls)),
                  average_apy |-> Rat(SumN(apys), Len(protocol_pools)),
                  pool_count |-> JNum(Len(protocol_pools)) ])

AcceptJson == [accept |-> "application/json"]

fetch_reservoir_nft_stats(collection_address, up) ==
    IF ~Truthy(collection_address)
    THEN [res |-> Return(Failure("No collection address provided")), reqs |-> << >>]
    ELSE
    LET r == make_request("reservoir/collections/v7", AcceptJson, up) IN
    IF Failed(r) THEN r ELSE
    LET data == r.res.env.data
        collections == PyGet(data, "collections", JNull)
        collection == PyIndex(collections, 0)
        floor_ask == PyGet(collection, "floorAsk", JEmpty)
        price_info == PyGet(floor_ask, "price", JEmpty)
        amount_info == PyGet(price_info, "amount", JEmpty)
        floor_price == PyGet(amount_info, "native", JNum(0))
        volume_24h == PyGet(PyGet(collection, "volume", JEmpty), "1day", JNum(0))
        volume_7d == PyGet(PyGet(collection, "volume", JEmpty), "7day", JNum(0))
        owner_count == PyGet(collection, "ownerCount", JNum(0))
        token_count == PyGet(collection, "tokenCount", JNum(0))
        name == PyGet(collection, "name", JStr("Unknown"))
    IN  IF IsRaise(collections) THEN Raised(r, collections)
        ELSE IF ~Truthy(collections) THEN NoMatch(r, "No collection data found")
        ELSE Payload(r,
                << collection, floor_ask, price_info, amount_info, floor_price,
                   volume_24h, volume_7d, owner_count, token_count, name >>,
                [ floor_price |-> floor_price, volume_24h |-> volume_24h,
                  volume_7d |-> volume_7d, owner_count |-> owner_count,
                  token_count |-> token_count, name |-> name ])

MsPerSecond == 1000
HistoryDays == 30

\* v // 1000
PyFloorDiv_rounded(v, d) ==
    IF IsRaise(v) THEN v
    ELSE IF v.t = "num" THEN JNum((v.n + d \div 2) \div d)
    ELSE Raise("TypeError")
PyFloorDiv(v, d) ==
    IF IsRaise(v) THEN v
    ELSE IF v.t = "num" THEN JNum(v.n \div d)
    ELSE Raise("TypeError")

fetch_coingecko_historical_data(coin_id, days, up) ==
    LET r == make_request("coingecko/market_chart", NoHeaders, up) IN
    IF Failed(r) THEN r ELSE
    LET data == r.res.env.data
        prices == PyGet(data, "prices", JList(<< >>))
        volumes == PyGet(data, "total_volumes", JList(<< >>))
        points == PyIter(prices)
        timestamp(i) == PyFloorDiv(PyIndex(points.l[i], 0), MsPerSecond)
        price(i) == PyIndex(points.l[i], 1)
        volume(i) ==
            IF IsRaise(PyLen(volumes)) THEN PyLen(volumes)
            ELSE IF i - 1 < PyLen(volumes).n THEN PyIndex(PyIndex(volumes, i - 1), 1)
            ELSE JNum(0)
        PointRaise(i) == FirstRaise(<< timestamp(i), price(i), volume(i) >>)
        n == IF IsRaise(points) THEN 0 ELSE Len(points.l)
        historical_data ==
            [i \in 1..n |-> [timestamp |-> timestamp(i), price |-> price(i),
                             volume_24h |-> volume(i)]]
    IN  Payload(r,
            << prices, volumes, points >> \o [i \in 1..n |-> PointRaise(i)],
            [ coin_id |-> coin_id, historical_prices |-> historical_data,
              days_range |-> JNum(days), data_points |-> JNum(n) ])

\* How many elements of a list satisfy a test that needs e.get(key): the count,
\* or the exception of the first element that is no object.
CountWhere(lst, key, default, wanted) ==
    IF IsRaise(lst) THEN lst
    ELSE LET vals == [i \in 1..Len(lst.l) |-> PyGet(lst.l[i], key, default)]
         IN IF FirstRaise(vals) # Absent THEN FirstRaise(vals)
            ELSE JNum(Cardinality({i \in 1..Len(vals) : (vals[i] = wanted)}))

\* max of a non-empty sequence of numbers
RECURSIVE MaxN(_)
MaxN(vals) ==
    IF Len(vals) = 1 THEN vals[1].n
    ELSE IF vals[1].n >= MaxN(Tail(vals)) THEN vals[1].n ELSE MaxN(Tail(vals))

\* fetch_defi_governance_data: two GETs, either of which may fail without
\* failing the adapter; the payload holds the fields of the ones that succeeded.
fetch_defi_governance_data(protocol_slug, up1, up2) ==
    LET r1 == make_request("llama/governance", NoHeaders, up1)
        r2 == make_request("yields/pools", NoHeaders, up2)
        data == r1.res.env.data
        total_proposals == PyLen(PyGet(data, "proposals", JList(<< >>)))
        active_proposals ==
            CountWhere(PyIter(PyGet(data, "proposals", JList(<< >>))),
                       "state", JNull, JStr("active"))
        voter_count == PyGet(data, "voterCount", JNum(0))
        treasury_value == PyGet(data, "treasuryValue", JNum(0))
        gov == << total_proposals, active_proposals, voter_count, treasury_value >>
        all_pools == PyIter(PyGet(r2.res.env.data, "data", JList(<< >>)))
        slug == Lower(TextOf(protocol_slug))
        names == IF IsRaise(all_pools) THEN << all_pools >>
                 ELSE [i \in 1..Len(all_pools.l) |->
                         PyLower(PyGet(all_pools.l[i], "project", JText(<< >>)))]
        protocol_pools == Filter([i \in 1..Len(names) |-> Contains(slug, TextOf(names[i]))])
        tvls == [j \in 1..Len(protocol_pools) |->
                    PyNum(PyGet(all_pools.l[protocol_pools[j]], "tvlUsd", JNum(0)))]
        apys == [j \in 1..Len(protocol_pools) |->
                    PyNum(PyGet(all_pools.l[protocol_pools[j]], "apy", JNum(0)))]
        stable == [j \in 1..Len(protocol_pools) |->
                    PyGet(all_pools.l[protocol_pools[j]], "stablecoin", JBool(FALSE))]
        n_stable == Cardinality({j \in 1..Len(stable) : Truthy(stable[j])})
        has_gov == ~IsRaise(r1.res) /\ r1.res.env.success
        has_pools == ~IsRaise(r2.res) /\ r2.res.env.success
        some_pools == has_pools /\ FirstRaise(names) = Absent /\ protocol_pools # << >>
        raised ==
            IF IsRaise(r1.res) THEN r1.res
            ELSE IF has_gov /\ FirstRaise(gov) # Absent THEN FirstRaise(gov)
            ELSE IF IsRaise(r2.res) THEN r2.res
            ELSE IF has_pools /\ FirstRaise(names) # Absent THEN FirstRaise(names)
            ELSE IF some_pools THEN FirstRaise(tvls \o apys)
            ELSE Absent
        sent == IF IsRaise(r1.res) \/ (has_gov /\ FirstRaise(gov) # Absent)
                THEN r1.reqs ELSE r1.reqs \o r2.reqs
    IN  IF raised # Absent THEN [res |-> raised, reqs |-> sent]
        ELSE [res |-> Return(Envelope(TRUE,
                [ total_proposals |-> IF has_gov THEN total_proposals ELSE Absent,
                  active_proposals |-> IF has_gov THEN active_proposals ELSE Absent,
                  voter_count |-> IF has_gov THEN voter_count ELSE Absent,
                  treasury_value |-> IF has_gov THEN treasury_value ELSE Absent,
                  farming_tvl |-> IF some_pools THEN JNum(SumN(tvls)) ELSE Absent,
                  avg_farm_apy |-> IF some_pools THEN Rat(SumN(apys), Len(apys)) ELSE Absent,
                  max_farm_apy |-> IF some_pools THEN JNum(MaxN(apys)) ELSE Absent,
                  farm_pools_count |-> IF some_pools THEN JNum(Len(apys)) ELSE Absent,
                  stable_pools |-> IF some_pools THEN JNum(n_stable) ELSE Absent,
                  il_risk_pools |-> IF some_pools THEN JNum(Len(apys) - n_stable) ELSE Absent ],
                JNull)),
              reqs |-> sent]

\* fetch_protocol_social_metrics: a search, then the details of the first coin
\* whose name contains the protocol name. protocol_name.lower() is evaluated
\* in the loop over the coins found, so only when there is one.
fetch_protocol_social_metrics(protocol_name, up1, up2) ==
    LET r1 == make_request("coingecko/search", NoHeaders, up1) IN
    IF IsRaise(r1.res) THEN r1
    ELSE IF ~r1.res.env.success THEN NoMatch(r1, "Search failed")
    ELSE
    LET coins == PyIter(PyGet(r1.res.env.data, "coins", JList(<< >>)))
        wanted == PyLower(protocol_name)
        names == IF IsRaise(coins) THEN << coins >>
                 ELSE [i \in 1..Len(coins.l) |->
                         IF IsRaise(wanted) THEN wanted
                         ELSE PyLower(PyGet(coins.l[i], "name", JText(<< >>)))]
        Hit(i) == ~IsRaise(names[i]) /\ Contains(TextOf(wanted), TextOf(names[i]))
        \* the loop stops at the first hit, or at the first element that raises
        stops == Filter([i \in 1..Len(names) |-> IsRaise(names[i]) \/ Hit(i)])
        found == IF stops # << >> /\ Hit(stops[1]) THEN << stops[1] >> ELSE << >>
        coin_id == PyItem(coins.l[found[1]], "id")
        r2 == make_request("coingecko/coins", NoHeaders, up2)
        coin_data == r2.res.env.data
        community == PyGet(coin_data, "community_data", JEmpty)
        developer == PyGet(coin_data, "developer_data", JEmpty)
        twitter_followers == PyGet(community, "twitter_followers", JNum(0))
        reddit_subscribers == PyGet(community, "reddit_subscribers", JNum(0))
        reddit_active_users == PyGet(community, "reddit_accounts_active_48h", JNum(0))
        telegram_users == PyGet(community, "telegram_users", JNum(0))
        github_forks == PyGet(developer, "forks", JNum(0))
        github_stars == PyGet(developer, "stars", JNum(0))
        github_subscribers == PyGet(developer, "subscribers", JNum(0))
        github_commits_4w == PyGet(developer, "github_commits_4w", JNum(0))
        developer_score == PyGet(coin_data, "developer_score", JNum(0))
        community_score == PyGet(coin_data, "community_score", JNum(0))
    IN  IF stops # << >> /\ IsRaise(names[stops[1]]) THEN Raised(r1, names[stops[1]])
        ELSE IF found = << >> THEN NoMatch(r1, "Protocol not found")
        ELSE IF IsRaise(coin_id) THEN Raised(r1, coin_id)
        ELSE IF Failed(r2) THEN [res |-> r2.res, reqs |-> r1.reqs \o r2.reqs]
        ELSE Payload([res |-> r2.res, reqs |-> r1.reqs \o r2.reqs],
                << community, developer, twitter_followers, reddit_subscribers,
                   reddit_active_users, telegram_users, github_forks, github_stars,
                   github_subscribers, github_commits_4w, developer_score,
                   community_score >>,
                [ twitter_followers |-> twitter_followers,
                  reddit_subscribers |-> reddit_subscribers,
                  reddit_active_users |-> reddit_active_users,
                  telegram_users |-> telegram_users, github_forks |-> github_forks,
                  github_stars |-> github_stars,
                  github_subscribers |-> github_subscribers,
                  github_commits_4w |-> github_commits_4w,
                  developer_score |-> developer_score,
                  community_score |-> community_score ])

(***************************************************************************)
(* The client table (config.CLIENTS).                                      *)
(***************************************************************************)

NumClients == 2

ClientNames == << "Raydium", "Pengu", "Sophon", "Kaito" >>
Tickers == << "RAY", "PENGU", "SOPHON", "KAITO" >>
CoinIds == << "raydium", "pudgy-penguins", "sophon", "kaito" >>
Slugs == << << "r", "a", "y" >>, << "p", "-", "p" >>, << "s", "-", "b" >>, << "k" >> >>
NftContracts == << "0x4k3D", "0xbd35", "0x5f0a", "0x98d0" >>

IdKeys == { "kaito_ticker", "coingecko_id", "defillama_slug", "nft_contract" }

\* The entry of client i when the identifiers of ids are set and the others are None
ClientConfig(i, ids) ==
    [ kaito_ticker |-> IF "kaito_ticker" \in ids THEN JStr(Tickers[i]) ELSE JNull,
      coingecko_id |-> IF "coingecko_id" \in ids THEN JStr(CoinIds[i]) ELSE JNull,
      defillama_slug |-> IF "defillama_slug" \in ids THEN JText(Slugs[i]) ELSE JNull,
      nft_contract |-> IF "nft_contract" \in ids THEN JStr(NftContracts[i]) ELSE JNull ]

\* The identifier sets a client entry is drawn from: all four (as Pengu in
\* config.py), and the protocol slug alone, with the other identifiers None
IdSets ==
    { IdKeys,
      { "defillama_slug" } }

Entries(i) == { ClientConfig(i, ids) : ids \in IdSets }
Configs ==
    { cfg \in [1..NumClients -> UNION { Entries(i) : i \in 1..NumClients }] :
        \A i \in 1..NumClients : cfg[i] \in Entries(i) }

\* config.get(key) is truthy
Has(cfg, key) == Truthy(cfg[key])

(***************************************************************************)
(* The store (SQLite file client_data.db).                                 *)
(***************************************************************************)

\* CURRENT_TIMESTAMP has a resolution of one second; the clock counts half seconds.
TicksPerSecond == 2
CurrentTimestamp(clock) == clock \div TicksPerSecond

\* A save whose INSERT is never committed
save_data_to_db_uncommitted(rows, clock, client_name, data_type, data) == rows

\* A save that replaces the Snapshot of the same client and data type
save_data_to_db_replace(rows, clock, client_name, data_type, data) ==
    LET Other(row) == ~(row.client_name = client_name /\ row.data_type = data_type)
    IN  Append(SelectSeq(rows, Other),
               [ client_name |-> client_name, data_type |-> data_type,
                 data |-> data.data, success |-> data.success,
                 error_message |-> data.error,
                 timestamp |-> CurrentTimestamp(clock) ])

\* A save that keeps the successes only
save_data_to_db_successes_only(rows, clock, client_name, data_type, data) ==
    IF data.success
    THEN Append(rows, [ client_name |-> client_name, data_type |-> data_type,
                        data |-> data.data, success |-> data.success,
                        error_message |-> data.error,
                        timestamp |-> CurrentTimestamp(clock) ])
    ELSE rows

\* save_data_to_db: one INSERT, committed before the call returns. The JSON
\* text of the payload is held as the value it encodes.
save_data_to_db(rows, clock, client_name, data_type, data) ==
    Append(rows, [ client_name |-> client_name, data_type |-> data_type,
                   data |-> data.data, success |-> data.success,
                   error_message |-> data.error,
                   timestamp |-> CurrentTimestamp(clock) ])

\* What binding a point's values to the INSERT of save_historical_data raises:
\* price_usd is NOT NULL, and a list or an object cannot be bound.
BindError(point) ==
    IF \E f \in {"timestamp", "price", "volume_24h"} : point[f].t \in {"list", "obj"}
    THEN Raise("InterfaceError")
    ELSE IF point.timestamp.t = "null" \/ point.price.t = "null"
    THEN Raise("IntegrityError")
    ELSE Absent

\* A plain INSERT into a table without the UNIQUE constraint
upsert_insert_only(table, client_name, coin_id, point) ==
    table \cup { [ client_name |-> client_name, coin_id |-> coin_id,
                   timestamp |-> point.timestamp, price_usd |-> point.price,
                   volume_24h |-> point.volume_24h ] }

\* INSERT OR REPLACE of one point: the row of the same (client_name, coin_id,
\* timestamp), if any, is deleted and the new row inserted. The surrogate
\* columns id and created_at are left out of the rows.
upsert(table, client_name, coin_id, point) ==
    { row \in table : ~( row.client_name = client_name /\ row.coin_id = coin_id
                         /\ row.timestamp = point.timestamp ) }
    \cup { [ client_name |-> client_name, coin_id |-> coin_id,
             timestamp |-> point.timestamp, price_usd |-> point.price,
             volume_24h |-> point.volume_24h ] }

\* The table after the first n points of a batch, each upserted in turn
RECURSIVE upsert_all(_, _, _, _, _)
upsert_all(table, client_name, coin_id, historical_data, n) ==
    IF n = 0 THEN table
    ELSE upsert(upsert_all(table, client_name, coin_id, historical_data, n - 1),
                client_name, coin_id, historical_data[n])

\* save_historical_data: the whole batch in one transaction. The answer is
\* the exception raised, if any, and the table afterwards; a failed batch is
\* never committed.
save_historical_data(exists, table, client_name, coin_id, historical_data) ==
    LET errors == [i \in 1..Len(historical_data) |-> BindError(historical_data[i])] IN
    IF ~exists THEN [raised |-> Raise("OperationalError"), table |-> table]
    ELSE IF FirstRaise(errors) # Absent
    THEN [raised |-> FirstRaise(errors), table |-> table]
    ELSE [raised |-> Absent,
          table |-> upsert_all(table, client_name, coin_id.s, historical_data,
                               Len(historical_data))]

(***************************************************************************)
(* The collection pass: fetch_all_data_with_limits.                        *)
(***************************************************************************)

\* A schedule whose sleep after the price call is 10 seconds
Schedule_short_price_sleep ==
    << [dtype |-> "mindshare",     needs |-> "kaito_ticker",   sleep |-> 1],
       [dtype |-> "engagement",    needs |-> "kaito_ticker",   sleep |-> 1],
       [dtype |-> "price",         needs |-> "coingecko_id",   sleep |-> 20],
       [dtype |-> "comprehensive", needs |-> "coingecko_id",   sleep |-> 60],
       [dtype |-> "protocol",      needs |-> "defillama_slug", sleep |-> 1],
       [dtype |-> "yields",        needs |-> "defillama_slug", sleep |-> 20],
       [dtype |-> "nft",           needs |-> "nft_contract",   sleep |-> 0],
       [dtype |-> "pause",         needs |-> "none",           sleep |-> 60],
       [dtype |-> "historical",    needs |-> "coingecko_id",   sleep |-> 60],
       [dtype |-> "pause",         needs |-> "none",           sleep |-> 2] >>

\* The steps taken for each client, in order: the data type, the identifier
\* that guards it, and the pacing sleep that follows the call, in half
\* seconds. A "pause" is a sleep outside every guard.
Schedule ==
    << [dtype |-> "mindshare",     needs |-> "kaito_ticker",   sleep |-> 1],
       [dtype |-> "engagement",    needs |-> "kaito_ticker",   sleep |-> 1],
       [dtype |-> "price",         needs |-> "coingecko_id",   sleep |-> 60],
       [dtype |-> "comprehensive", needs |-> "coingecko_id",   sleep |-> 60],
       [dtype |-> "protocol",      needs |-> "defillama_slug", sleep |-> 1],
       [dtype |-> "yields",        needs |-> "defillama_slug", sleep |-> 20],
       [dtype |-> "nft",           needs |-> "nft_contract",   sleep |-> 0],
       [dtype |-> "pause",         needs |-> "none",           sleep |-> 60],
       [dtype |-> "historical",    needs |-> "coingecko_id",   sleep |-> 60],
       [dtype |-> "pause",         needs |-> "none",           sleep |-> 2] >>

\* The steps of the schedule that call an adapter
AdapterSteps == { s \in 1..Len(Schedule) : Schedule[s].dtype # "pause" }

\* The adapter of a data type, applied to the identifier and the upstream's answer
Invoke(dtype, arg, up) ==
    CASE dtype = "mindshare" -> fetch_kaito_mindshare_data(arg, up)
      [] dtype = "engagement" -> fetch_kaito_engagement_data(arg, up)
      [] dtype = "price" -> fetch_coingecko_price_data(arg, up)
      [] dtype = "comprehensive" -> fetch_coingecko_comprehensive_data(arg, up)
      [] dtype = "protocol" -> fetch_defillama_protocol_data(arg, up)
      [] dtype = "yields" -> fetch_defillama_yields_data(arg, up)
      [] dtype = "nft" -> fetch_reservoir_nft_stats(arg, up)
      [] dtype = "historical" -> fetch_coingecko_historical_data(arg, HistoryDays, up)

\* A well-formed answer of the upstream of a data type
NormalUp(dtype, arg) ==
    CASE dtype = "mindshare" ->
            UpOk(JObj([result |-> JObj([result |-> JList(<< JObj([mindshare |-> JNum(2)]) >>)])]))
      [] dtype = "engagement" ->
            UpOk(JObj([summaryData |-> JObj([engagement |-> JNum(4), smartEngagement |-> JNum(2)])]))
      [] dtype = "price" -> UpOk(JObj(arg.s :> JObj([usd |-> JNum(5)])))
      [] dtype = "comprehensive" -> UpOk(JObj([market_cap_rank |-> JNum(7)]))
      [] dtype = "protocol" ->
            UpOk(JObj([tvl |-> JList(<< JObj([totalLiquidityUSD |-> JNum(9)]) >>)]))
      [] dtype = "yields" ->
            UpOk(JObj([data |-> JList(<< JObj([project |-> arg, tvlUsd |-> JNum(100),
                                               apy |-> JNum(5)]) >>)]))
      [] dtype = "nft" -> UpOk(JObj([collections |-> JList(<< JObj([ownerCount |-> JNum(8)]) >>)]))
      [] dtype = "historical" ->
            UpOk(JObj([prices |-> JList(<< JList(<< JNum(1500), JNum(3) >>) >>),
                       total_volumes |-> JList(<< JList(<< JNum(1500), JNum(6) >>) >>)]))

\* The answers that go wrong in a pass: a timeout (a transport error), a body
\* that is JSON null (a shape error) and, for the yield pools, an empty object
\* (no pool matches), for the price history an empty object (no points).
FaultResponses(dtype) ==
    { Up("timeout", 0, JNull), UpOk(JNull) }
    \cup (IF dtype \in {"yields", "historical"} THEN { UpOk(JEmpty) } ELSE {})

\* How many calls of one pass may meet an answer of FaultResponses or a storage failure
MaxFaults == 1

NoResult == [t |-> "none"]
NoInvocation == [t |-> "none"]

\* How an adapter call ended: it raised, or returned a failure or a success
Outcome(res) ==
    IF IsRaise(res) THEN "raised" ELSE IF res.env.success THEN "ok" ELSE "error"

\* The record kept of an adapter call: who, what, with which identifier, when
\* and how it ended
Call(i, dtype, arg, res) ==
    [client |-> i, dtype |-> dtype, arg |-> arg, at |-> now, outcome |-> Outcome(res)]

\* A loop that leaves for the FetchRun row after the steps of one client
NextPos_one_client(i, s) ==
    IF s < Len(Schedule) THEN [idx |-> i, step |-> s + 1, pc |-> "call"]
    ELSE [idx |-> i + 1, step |-> 1, pc |-> "history"]

\* The position after the step at (i, s): the next step, or the next client
\* after the last step, or the end of the loop after the last client.
NextPos(i, s) ==
    IF s < Len(Schedule) THEN [idx |-> i, step |-> s + 1, pc |-> "call"]
    ELSE IF i < NumClients THEN [idx |-> i + 1, step |-> 1, pc |-> "call"]
    ELSE [idx |-> i + 1, step |-> 1, pc |-> "history"]

\* An except clause around the whole loop: a failure ends the calls of the pass
on_exception_abort(i, s) == [idx |-> NumClients + 1, step |-> 1, pc |-> "history"]

\* An except clause that leaves the step at once, its pacing sleep included
on_exception_skip_sleep(i, s) == NextPos(i, s)

\* Where control goes when the try block of a step raised: to the except
\* clause of the same step, and on to the code after it.
on_exception(i, s) == [idx |-> i, step |-> s, pc |-> "sleep"]

InPass == program = "dashboard" /\ pc \in {"call", "save", "sleep"}
Current == Schedule[step]

Goto(pos) == idx' = pos.idx /\ step' = pos.step /\ pc' = pos.pc

\* The environment and the parts of the state a pass never touches
PassFrame == UNCHANGED << bearer_token, config, table_exists, program, inv, latest >>

\* "if config.get(...)" is false: the step, with its sleep, is skipped.
SkipStep ==
    /\ InPass /\ pc = "call"
    /\ Current.dtype # "pause"
    /\ ~Has(config[idx], Current.needs)
    /\ Goto(NextPos(idx, step))
    /\ UNCHANGED << client_data, fetch_history, price_history, now, result,
                    total_apis_called, errors_count, calls, faults >>
    /\ PassFrame

\* A time.sleep outside the guards.
Pause ==
    /\ InPass /\ pc = "call"
    /\ Current.dtype = "pause"
    /\ now' = now + Current.sleep
    /\ Goto(NextPos(idx, step))
    /\ UNCHANGED << client_data, fetch_history, price_history, result,
                    total_apis_called, errors_count, calls, faults >>
    /\ PassFrame

\* The adapter call of the step: it returns an envelope or raises.
CallAdapter ==
    /\ InPass /\ pc = "call"
    /\ Current.dtype # "pause"
    /\ Has(config[idx], Current.needs)
    /\ LET arg == config[idx][Current.needs] IN
       \E up \in {NormalUp(Current.dtype, arg)} \cup FaultResponses(Current.dtype) :
          /\ up \in FaultResponses(Current.dtype) => faults < MaxFaults
          /\ faults' = IF up \in FaultResponses(Current.dtype) THEN faults + 1 ELSE faults
          /\ result' = Invoke(Current.dtype, arg, up).res
          /\ calls' = Append(calls, Call(idx, Current.dtype, arg,
                                         Invoke(Current.dtype, arg, up).res))
    /\ pc' = "save"
    /\ UNCHANGED << idx, step, client_data, fetch_history, price_history, now,
                    total_apis_called, errors_count >>
    /\ PassFrame

\* The adapter raised: the except clause counts an error.
CatchAdapterError ==
    /\ InPass /\ pc = "save"
    /\ IsRaise(result)
    /\ errors_count' = errors_count + 1
    /\ result' = NoResult
    /\ Goto(on_exception(idx, step))
    /\ UNCHANGED << client_data, fetch_history, price_history, now,
                    total_apis_called, calls, faults >>
    /\ PassFrame

\* The adapter returned, and the INSERT of save_data_to_db fails (a storage
\* failure): the except clause counts an error.
CatchStorageError ==
    /\ InPass /\ pc = "save"
    /\ ~IsRaise(result)
    /\ faults < MaxFaults
    /\ faults' = faults + 1
    /\ errors_count' = errors_count + 1
    /\ result' = NoResult
    /\ Goto(on_exception(idx, step))
    /\ UNCHANGED << client_data, fetch_history, price_history, now,
                    total_apis_called, calls >>
    /\ PassFrame

\* A pass that leaves the batch upsert out
StoresPoints_never(dtype, data) == FALSE

\* Whether the step stores points: the historical fetch succeeded and its
\* list of points is not empty.
StoresPoints(dtype, data) ==
    dtype = "historical" /\ data.success /\ Truthy(JList(data.data.historical_prices))

\* The adapter returned: the Snapshot is saved, then (historical only) the
\* points are upserted, then the counters are updated. An exception of
\* save_historical_data skips the counting of the call and counts an error.
SaveResult ==
    /\ InPass /\ pc = "save"
    /\ ~IsRaise(result)
    /\ LET data == result.env
           saved == IF StoresPoints(Current.dtype, data)
                    THEN save_historical_data(table_exists, price_history,
                            ClientNames[idx], config[idx].coingecko_id,
                            data.data.historical_prices)
                    ELSE [raised |-> Absent, table |-> price_history]
       IN /\ client_data' = save_data_to_db(client_data, now, ClientNames[idx],
                                             Current.dtype, data)
          /\ price_history' = saved.table
          /\ IF saved.raised # Absent
             THEN /\ errors_count' = errors_count + 1
                  /\ UNCHANGED total_apis_called
                  /\ Goto(on_exception(idx, step))
             ELSE /\ total_apis_called' = total_apis_called + 1
                  /\ errors_count' = IF data.success THEN errors_count ELSE errors_count + 1
                  /\ Goto([idx |-> idx, step |-> step, pc |-> "sleep"])
    /\ result' = NoResult
    /\ UNCHANGED << fetch_history, now, calls, faults >>
    /\ PassFrame

\* The pacing sleep that ends the step.
Sleep ==
    /\ InPass /\ pc = "sleep"
    /\ now' = now + Current.sleep
    /\ Goto(NextPos(idx, step))
    /\ UNCHANGED << client_data, fetch_history, price_history, result,
                    total_apis_called, errors_count, calls, faults >>
    /\ PassFrame

\* After the loop: the FetchRun row.
WriteFetchRun ==
    /\ program = "dashboard" /\ pc = "history"
    /\ fetch_history' = Append(fetch_history,
            [ clients_fetched |-> NumClients, total_apis_called |-> total_apis_called,
              errors_count |-> errors_count ])
    /\ pc' = "done"
    /\ UNCHANGED << idx, step, client_data, price_history, now, result,
                    total_apis_called, errors_count, calls, faults >>
    /\ PassFrame

\* The process is terminated during the pass; the store keeps what was committed.
Terminate ==
    /\ program = "dashboard" /\ pc \in {"call", "save", "sleep", "history"}
    /\ pc' = "killed"
    /\ UNCHANGED << idx, step, client_data, fetch_history, price_history, now,
                    result, total_apis_called, errors_count, calls, faults >>
    /\ PassFrame

(***************************************************************************)
(* The test entry point of data_fetcher.py: test_api_functions calls       *)
(* fetch_all_protocol_data for each client, and nothing catches.           *)
(***************************************************************************)

\* Well-formed answers of the governance and search endpoints
GovernanceUp == UpOk(JObj([proposals |-> JList(<< JObj([state |-> JStr("active")]) >>)]))
SearchUp == UpOk(JObj([coins |-> JList(<< JObj([name |-> JStr("kaito"), id |-> JStr("kaito")]) >>)]))

\* fetch_all_protocol_data(client_name, config) for the client i, given how
\* each adapter call would end: the calls it makes, and the exception that
\* ends it, if any (an adapter's, or the UnboundLocalError of a result that no
\* branch assigned).
fetch_all_protocol_data(cfg, i, historical, governance, social) ==
    LET has_coin == Has(cfg, "coingecko_id")
        has_slug == Has(cfg, "defillama_slug")
        first == IF has_coin THEN << Call(i, "historical", cfg.coingecko_id, historical) >>
                 ELSE << >>
        second == << Call(i, "governance", cfg.defillama_slug, governance) >>
        third == << Call(i, "social", cfg.coingecko_id, social) >>
    IN  IF has_coin /\ IsRaise(historical)
        THEN [raised |-> historical, made |-> first, all_data |-> NoResult]
        ELSE IF ~has_slug
        THEN [raised |-> Raise("UnboundLocalError"), made |-> first, all_data |-> NoResult]
        ELSE IF IsRaise(governance)
        THEN [raised |-> governance, made |-> first \o second, all_data |-> NoResult]
        ELSE IF IsRaise(social)
        THEN [raised |-> social, made |-> first \o second \o third, all_data |-> NoResult]
        ELSE IF ~has_coin
        THEN [raised |-> Raise("UnboundLocalError"), made |-> first \o second \o third,
              all_data |-> NoResult]
        ELSE [raised |-> Absent, made |-> first \o second \o third,
              all_data |-> [t |-> "all_data", governance |-> governance.env,
                            social |-> social.env, historical |-> historical.env]]

\* What test_api_functions does with the outcome: nothing catches, so an
\* exception ends the program; otherwise the loop goes on.
AfterProtocolData(out) ==
    /\ calls' = calls \o out.made
    /\ result' = out.all_data
    /\ IF out.raised # Absent
       THEN pc' = "crashed" /\ UNCHANGED idx
       ELSE /\ idx' = idx + 1
            /\ pc' = IF idx < NumClients THEN "call" ELSE "done"

\* One iteration of test_api_functions.
FetchAllProtocolData ==
    /\ program = "test" /\ pc = "call"
    /\ \E u_hist \in {NormalUp("historical", JNull), Up("timeout", 0, JNull)},
          u_gov \in {GovernanceUp, Up("timeout", 0, JNull)},
          u_pools \in {NormalUp("yields", config[idx].defillama_slug), UpOk(JNull)},
          u_search \in {SearchUp, Up("timeout", 0, JNull)},
          u_coin \in {NormalUp("comprehensive", JNull), UpOk(JNull)} :
          AfterProtocolData(fetch_all_protocol_data(config[idx], idx,
              fetch_coingecko_historical_data(config[idx].coingecko_id, HistoryDays, u_hist).res,
              fetch_defi_governance_data(config[idx].defillama_slug, u_gov, u_pools).res,
              fetch_protocol_social_metrics(config[idx].coingecko_id, u_search, u_coin).res))
    /\ UNCHANGED << step, client_data, fetch_history, price_history, now,
                    total_apis_called, errors_count, faults >>
    /\ PassFrame

(***************************************************************************)
(* The specification of the two entry points.                              *)
(***************************************************************************)

Init ==
    /\ bearer_token \in {"", "token"}
    /\ config \in Configs
    /\ table_exists \in BOOLEAN
    /\ client_data = << >>
    /\ fetch_history = << >>
    /\ price_history = {}
    /\ now = 0
    /\ program \in {"dashboard", "test"}
    /\ pc = "call"
    /\ idx = 1
    /\ step = 1
    /\ result = NoResult
    /\ total_apis_called = 0
    /\ errors_count = 0
    /\ calls = << >>
    /\ faults = 0
    /\ inv = NoInvocation
    /\ latest = {}

Next ==
    \/ SkipStep
    \/ Pause
    \/ CallAdapter
    \/ CatchAdapterError
    \/ SaveResult
    \/ Sleep
    \/ WriteFetchRun
    \/ FetchAllProtocolData

Spec == Init /\ [][Next]_vars

\* The same in a hostile environment: the store may fail an INSERT, and the
\* process may be terminated at any point of a pass. The deployment is one
\* that is set up: the Kaito token is configured and price_history exists.
InitHostile == Init /\ bearer_token = "token" /\ table_exists

NextHostile == Next \/ CatchStorageError \/ Terminate

SpecHostile == InitHostile /\ [][NextHostile]_vars

\* The dashboard over several passes: the button "Refresh All Data" is
\* pressed again once a pass is over, up to MaxPasses passes in all. The
\* counters of a pass are local to it. price_history exists, and over all the
\* passes one answer at most is an answer of FaultResponses.
MaxPasses == 2

RefreshAgain ==
    /\ program = "dashboard" /\ pc = "done"
    /\ Len(fetch_history) < MaxPasses
    /\ Goto([idx |-> 1, step |-> 1, pc |-> "call"])
    /\ total_apis_called' = 0
    /\ errors_count' = 0
    /\ UNCHANGED << client_data, fetch_history, price_history, now, result, calls, faults >>
    /\ PassFrame

InitRepeat ==
    /\ bearer_token \in {"", "token"}
    /\ config \in Configs
    /\ table_exists = TRUE
    /\ client_data = << >>
    /\ fetch_history = << >>
    /\ price_history = {}
    /\ now = 0
    /\ program = "dashboard"
    /\ pc = "call"
    /\ idx = 1
    /\ step = 1
    /\ result = NoResult
    /\ total_apis_called = 0
    /\ errors_count = 0
    /\ calls = << >>
    /\ faults = MaxFaults - 1
    /\ inv = NoInvocation
    /\ latest = {}

NextRepeat ==
    \/ SkipStep
    \/ Pause
    \/ CallAdapter
    \/ CatchAdapterError
    \/ SaveResult
    \/ Sleep
    \/ WriteFetchRun
    \/ RefreshAgain

SpecRepeat == InitRepeat /\ [][NextRepeat]_vars

\* One pass of a set-up deployment over every configuration of the clients:
\* each client has any subset of the four identifiers, and every upstream
\* answers well.
AnyConfigs ==
    { cfg \in [1..NumClients ->
                 UNION { { ClientConfig(i, ids) : ids \in SUBSET IdKeys } : i \in 1..NumClients }] :
        \A i \in 1..NumClients : \E ids \in SUBSET IdKeys : cfg[i] = ClientConfig(i, ids) }

InitPacing ==
    /\ bearer_token = "token"
    /\ config \in AnyConfigs
    /\ table_exists = TRUE
    /\ client_data = << >>
    /\ fetch_history = << >>
    /\ price_history = {}
    /\ now = 0
    /\ program = "dashboard"
    /\ pc = "call"
    /\ idx = 1
    /\ step = 1
    /\ result = NoResult
    /\ total_apis_called = 0
    /\ errors_count = 0
    /\ calls = << >>
    /\ faults = MaxFaults
    /\ inv = NoInvocation
    /\ latest = {}

NextPacing ==
    \/ SkipStep
    \/ Pause
    \/ CallAdapter
    \/ SaveResult
    \/ Sleep
    \/ WriteFetchRun

SpecPacing == InitPacing /\ [][NextPacing]_vars

\* One pass of a set-up deployment whose clients have one identifier each at
\* most (the others are None), where one answer at most is an answer of
\* FaultResponses.
SparseConfigs ==
    { cfg \in AnyConfigs :
        \A i \in 1..NumClients : Cardinality({ key \in IdKeys : Has(cfg[i], key) }) <= 1 }

InitSparse ==
    /\ bearer_token = "token"
    /\ config \in SparseConfigs
    /\ table_exists = TRUE
    /\ client_data = << >>
    /\ fetch_history = << >>
    /\ price_history = {}
    /\ now = 0
    /\ program = "dashboard"
    /\ pc = "call"
    /\ idx = 1
    /\ step = 1
    /\ result = NoResult
    /\ total_apis_called = 0
    /\ errors_count = 0
    /\ calls = << >>
    /\ faults = MaxFaults - 1
    /\ inv = NoInvocation
    /\ latest = {}

NextSparse ==
    \/ SkipStep
    \/ Pause
    \/ CallAdapter
    \/ CatchAdapterError
    \/ SaveResult
    \/ Sleep
    \/ WriteFetchRun

SpecSparse == InitSparse /\ [][NextSparse]_vars

(***************************************************************************)
(* Two dashboard sessions against the same store: "Refresh All Data" is    *)
(* pressed in both, and the two passes run interleaved. The pass variables *)
(* hold the locals of the session that runs, inv those of the other one.   *)
(***************************************************************************)

\* The locals of the session that is not running
Suspended(p, i, s, r, total, errors, cs) ==
    [ t |-> "session", pc |-> p, idx |-> i, step |-> s, result |-> r,
      total_apis_called |-> total, errors_count |-> errors, calls |-> cs ]

\* A counter that is a global of the module, shared by the sessions
ResumedCounter_global(own, running) == running

\* The counter a session goes on with when it runs again: its own, a local
\* of fetch_all_data_with_limits.
ResumedCounter(own, running) == own

\* The scheduler runs the other session, which has something left to do.
\* The steps on a session's locals commute with the steps of the other
\* session, so it is enough to switch where the running session is about to
\* write to the store, or is over.
Switch ==
    /\ program = "dashboard" /\ inv.t = "session"
    /\ inv.pc # "done"
    /\ pc \in {"save", "history", "done"}
    /\ inv' = Suspended(pc, idx, step, result, total_apis_called, errors_count, calls)
    /\ Goto([idx |-> inv.idx, step |-> inv.step, pc |-> inv.pc])
    /\ result' = inv.result
    /\ total_apis_called' = ResumedCounter(inv.total_apis_called, total_apis_called)
    /\ errors_count' = ResumedCounter(inv.errors_count, errors_count)
    /\ calls' = inv.calls
    /\ UNCHANGED << bearer_token, config, table_exists, client_data, fetch_history,
                    price_history, now, program, faults, latest >>

\* The configurations of the two sessions: one identifier in all
OneSourceConfigs ==
    { cfg \in SparseConfigs :
        Cardinality({ i \in 1..NumClients : \E key \in IdKeys : Has(cfg[i], key) }) <= 1 }

InitInterleaved ==
    /\ bearer_token = "token"
    /\ config \in OneSourceConfigs
    /\ table_exists = TRUE
    /\ client_data = << >>
    /\ fetch_history = << >>
    /\ price_history = {}
    /\ now = 0
    /\ program = "dashboard"
    /\ pc = "call"
    /\ idx = 1
    /\ step = 1
    /\ result = NoResult
    /\ total_apis_called = 0
    /\ errors_count = 0
    /\ calls = << >>
    /\ faults = MaxFaults - 1
    /\ inv = Suspended("call", 1, 1, NoResult, 0, 0, << >>)
    /\ latest = {}

NextInterleaved ==
    \/ SkipStep
    \/ Pause
    \/ CallAdapter
    \/ CatchAdapterError
    \/ SaveResult
    \/ Sleep
    \/ WriteFetchRun
    \/ Switch

SpecInterleaved == InitInterleaved /\ [][NextInterleaved]_vars

(***************************************************************************)
(* The store operations on their own: the price_history table under        *)
(* init_historical_tables and save_historical_data, and the client_data    *)
(* table under save_data_to_db and get_latest_data.                        *)
(***************************************************************************)

\* The configuration of config.py's kind: every identifier set
FullConfig == [i \in 1..NumClients |-> ClientConfig(i, IdKeys)]

\* The state at the start of a program, but for the token and the invocation
Fresh(prog) ==
    /\ config = FullConfig
    /\ table_exists = FALSE
    /\ client_data = << >>
    /\ fetch_history = << >>
    /\ price_history = {}
    /\ now = 0
    /\ program = prog
    /\ pc = "call"
    /\ idx = 1
    /\ step = 1
    /\ result = NoResult
    /\ total_apis_called = 0
    /\ errors_count = 0
    /\ calls = << >>
    /\ faults = 0
    /\ latest = {}

\* The state of a program that has only opened the store
Opened(prog) == bearer_token = "token" /\ inv = NoInvocation /\ Fresh(prog)

\* What the store operations never touch
StoreFrame ==
    UNCHANGED << bearer_token, config, fetch_history, program, pc, idx, step, result,
                 total_apis_called, errors_count, calls, faults >>

\* The longest batch of points given to save_historical_data
MaxBatch == 2

\* The points of a batch: two instants, two prices, and a price of None
PointValues ==
    [ timestamp : {JNum(1), JNum(2)}, price : {JNum(1), JNum(2), JNull},
      volume_24h : {JNum(0)} ]

Batches == UNION { [1..n -> PointValues] : n \in 0..MaxBatch }

\* init_historical_tables: CREATE TABLE IF NOT EXISTS.
InitHistoricalTables ==
    /\ program = "history"
    /\ table_exists' = TRUE
    /\ inv' = [t |-> "init_historical_tables"]
    /\ UNCHANGED << client_data, price_history, now, latest >>
    /\ StoreFrame

\* The table after a call of save_historical_data, and what the call did
AfterSaveHistorical(saved) ==
    /\ price_history' = saved.table
    /\ inv' = [ t |-> "save_historical_data", raised |-> saved.raised # Absent,
                replaced |-> \E row \in price_history : row \notin saved.table ]

\* save_historical_data(client_name, coin_id, historical_data) for a client
\* and a batch of points.
SaveHistoricalData ==
    /\ program = "history"
    /\ \E i \in 1..NumClients, batch \in Batches :
          AfterSaveHistorical(save_historical_data(table_exists, price_history,
                                  ClientNames[i], JStr(CoinIds[i]), batch))
    /\ UNCHANGED << table_exists, client_data, now, latest >>
    /\ StoreFrame

InitHistory == Opened("history")

NextHistory == InitHistoricalTables \/ SaveHistoricalData

SpecHistory == InitHistory /\ [][NextHistory]_vars

\* The most rows of client_data in the runs of SpecLatest
MaxRows == 3

\* The data types saved in the runs of SpecLatest
SavedTypes == { "price", "protocol" }

\* What is saved in the runs of SpecLatest: a success of each client and
\* data type, and a failure of the first client's price
SavedResults ==
    { [i |-> i, data_type |-> d, data |-> Envelope(TRUE, JObj([usd |-> JNum(5)]), JNull)] :
        i \in 1..NumClients, d \in SavedTypes }
    \cup { [i |-> 1, data_type |-> "price", data |-> Failure("Read timed out")] }

\* A query in which the newest row of a pair is the oldest one
get_latest_data_oldest(rows, client_name, data_type) ==
    LET selected == { n \in 1..Len(rows) :
                        /\ Truthy(client_name) => rows[n].client_name = client_name.s
                        /\ Truthy(data_type) => rows[n].data_type = data_type.s }
        pair(n) == << rows[n].client_name, rows[n].data_type >>
        first(n) == \A m \in selected : pair(m) = pair(n) => rows[m].timestamp >= rows[n].timestamp
        firsts == { n \in selected : first(n) }
    IN  { answer \in SUBSET firsts :
            \A n \in firsts : Cardinality({ m \in answer : pair(m) = pair(n) }) = 1 }

\* get_latest_data(client_name, data_type): the rows that pass the filters
\* (a filter of None or "" is no filter) are partitioned by (client_name,
\* data_type), and of each partition the row numbered 1 by timestamp
\* descending is returned. Rows of one timestamp are numbered in an order
\* the query does not fix: the answer is one of a set, with one of the
\* partition's newest rows for each partition. A row is named by its
\* position in the table (its id).
get_latest_data(rows, client_name, data_type) ==
    LET selected == { n \in 1..Len(rows) :
                        /\ Truthy(client_name) => rows[n].client_name = client_name.s
                        /\ Truthy(data_type) => rows[n].data_type = data_type.s }
        pair(n) == << rows[n].client_name, rows[n].data_type >>
        first(n) == \A m \in selected : pair(m) = pair(n) => rows[m].timestamp <= rows[n].timestamp
        firsts == { n \in selected : first(n) }
    IN  { answer \in SUBSET firsts :
            \A n \in firsts : Cardinality({ m \in answer : pair(m) = pair(n) }) = 1 }

\* save_data_to_db, as a pass calls it, followed by the time that goes by
\* before the next save: none, or a second.
SaveData ==
    /\ program = "latest"
    /\ Len(client_data) < MaxRows
    /\ \E r \in SavedResults :
          client_data' = save_data_to_db(client_data, now, ClientNames[r.i], r.data_type, r.data)
    /\ \E elapsed \in {0, TicksPerSecond} : now' = now + elapsed
    /\ inv' = [t |-> "save_data_to_db"]
    /\ latest' = {}
    /\ UNCHANGED << table_exists, price_history >>
    /\ StoreFrame

\* The filters of the queries: none (as main calls it), an empty string, a
\* client, a client and a data type
Queries ==
    { [client_name |-> JNull, data_type |-> JNull],
      [client_name |-> JStr(""), data_type |-> JStr("price")],
      [client_name |-> JStr(ClientNames[1]), data_type |-> JNull],
      [client_name |-> JStr(ClientNames[1]), data_type |-> JStr("price")] }

\* A call of get_latest_data, with or without filters.
GetLatestData ==
    /\ program = "latest"
    /\ \E q \in Queries :
          /\ latest' \in get_latest_data(client_data, q.client_name, q.data_type)
          /\ inv' = [t |-> "get_latest_data", client_name |-> q.client_name,
                     data_type |-> q.data_type]
    /\ UNCHANGED << table_exists, client_data, price_history, now >>
    /\ StoreFrame

InitLatest == Opened("latest")

NextLatest == SaveData \/ GetLatestData

SpecLatest == InitLatest /\ [][NextLatest]_vars

(***************************************************************************)
(* The adapters on their own: one invocation of make_request or of a       *)
(* source adapter, against one answer of the upstream.                     *)
(***************************************************************************)

\* The identifier each adapter needs
IdentifierOf(dtype) ==
    CASE dtype \in {"mindshare", "engagement"} -> "kaito_ticker"
      [] dtype \in {"price", "comprehensive", "historical", "social"} -> "coingecko_id"
      [] dtype \in {"protocol", "yields", "governance"} -> "defillama_slug"
      [] dtype = "nft" -> "nft_contract"

\* The adapters invoked, make_request among them
Adapters == { "make_request" } \cup { Schedule[s].dtype : s \in AdapterSteps }

\* The argument of an invocation: a URL, or the first client's identifier
ArgOf(adapter) ==
    IF adapter = "make_request" THEN JStr("https://api.llama.fi/pools")
    ELSE FullConfig[1][IdentifierOf(adapter)]

\* A body of the shape the adapter expects
WellFormed(adapter) ==
    IF adapter = "make_request" THEN JObj([data |-> JList(<< >>)])
    ELSE NormalUp(adapter, ArgOf(adapter)).body

\* Bodies that are JSON but not an object: null, a list, a string
WrongContainer == { JNull, JList(<< >>), JStr("Bad Gateway") }

\* Bodies with a null where the adapter expects an object, a list or a number
NullInside(adapter) ==
    CASE adapter = "mindshare" ->
            { JObj([result |-> JNull]), JObj([result |-> JObj([result |-> JNull])]),
              JObj([result |-> JObj([result |-> JList(<< JNull >>)])]) }
      [] adapter = "engagement" ->
            { JObj([summaryData |-> JNull]), JObj([summaryData |-> JObj([engagement |-> JNull])]) }
      [] adapter = "price" -> { JObj(ArgOf(adapter).s :> JNull) }
      [] adapter = "comprehensive" ->
            { JObj([market_data |-> JNull]), JObj([community_data |-> JNull]) }
      [] adapter = "protocol" -> { JObj([tvl |-> JNull]), JObj([tvl |-> JList(<< JNull >>)]) }
      [] adapter = "yields" -> { JObj([data |-> JNull]), JObj([data |-> JList(<< JNull >>)]) }
      [] adapter = "nft" ->
            { JObj([collections |-> JNull]), JObj([collections |-> JList(<< JNull >>)]) }
      [] adapter = "historical" ->
            { JObj([prices |-> JNull]), JObj([prices |-> JList(<< JNull >>)]) }
      [] OTHER -> {}

\* A body of the shape the adapter expects in which every optional field is
\* left out
SparseBody(adapter) ==
    CASE adapter = "mindshare" -> JObj([result |-> JObj([result |-> JList(<< JEmpty >>)])])
      [] adapter = "engagement" -> JObj([summaryData |-> JEmpty])
      [] adapter = "price" -> JObj(ArgOf(adapter).s :> JEmpty)
      [] adapter = "yields" -> JObj([data |-> JList(<< JObj([project |-> ArgOf(adapter)]) >>)])
      [] adapter = "nft" -> JObj([collections |-> JList(<< JEmpty >>)])
      [] OTHER -> JEmpty

\* The numeric fields of an adapter's payload that come from optional fields
\* of the upstream's answer
OptionalNumeric(adapter) ==
    CASE adapter = "mindshare" -> { "current_mindshare", "avg_mindshare" }
      [] adapter = "engagement" ->
            { "total_documents", "total_engagement", "smart_engagement", "engagement_rate" }
      [] adapter = "price" -> { "price", "market_cap", "volume_24h", "price_change_24h" }
      [] adapter = "comprehensive" ->
            { "holder_count", "market_cap", "market_cap_rank", "telegram_users",
              "reddit_subscribers", "sentiment_positive", "sentiment_negative" }
      [] adapter = "protocol" -> { "tvl" }
      [] adapter = "yields" -> { "total_staking_tvl", "average_apy" }
      [] adapter = "nft" ->
            { "floor_price", "volume_24h", "volume_7d", "owner_count", "token_count" }
      [] adapter = "historical" -> { "data_points" }
      [] OTHER -> {}

\* The malformed bodies of an adapter's upstream
Malformed(adapter) == WrongContainer \cup NullInside(adapter)

\* The statuses of the answers that are not 200: a redirection that requests
\* does not follow (300 Multiple Choices), and errors
OtherStatuses == { 300, 404, 429, 500 }

\* The answers of the upstream to the GET of an invocation
Responses(adapter) ==
    { Up("timeout", 0, JNull), Up("conn", 0, JNull) }
    \cup { Up("http", status, body) :
             status \in OtherStatuses,
             body \in { WellFormed(adapter), NotJson("RequestException") } }
    \cup { UpOk(body) :
             body \in { WellFormed(adapter), SparseBody(adapter), JEmpty,
                        NotJson("RequestException"), NotJson("ValueError") }
                      \cup Malformed(adapter) }

\* The pool lists of the yields upstream: at most MaxPools pools, the pool i
\* of a list with the TVL 2^(i-1) and the APY i, so that the sums tell which
\* pools were aggregated.
MaxPools == 2
YieldSlugs == { << "r", "a", "y" >>, << "R", "-", "B" >> }
ProjectNames ==
    { << "r", "a", "y", "-", "a" >>, << "R", "a" >>, << "r", "-", "a", "y" >>,
      << "r", "b" >>, << "a", "b" >>, << "o" >> }
PoolTvl(i) == 2 ^ (i - 1)
Pool(name, i) == JObj([project |-> JText(name), tvlUsd |-> JNum(PoolTvl(i)), apy |-> JNum(i)])
PoolLists == UNION { [1..n -> ProjectNames] : n \in 0..MaxPools }
PoolsUp(names) == UpOk(JObj([data |-> JList([i \in 1..Len(names) |-> Pool(names[i], i)])]))

\* The pools raydium-amm and other, asked for the slug raydium
ExampleSlug == << "r", "a", "y", "d", "i", "u", "m" >>
ExamplePools ==
    UpOk(JObj([data |-> JList(<<
        JObj([project |-> JText(ExampleSlug \o << "-", "a", "m", "m" >>),
              tvlUsd |-> JNum(100), apy |-> JNum(5)]),
        JObj([project |-> JText(<< "o", "t", "h", "e", "r" >>),
              tvlUsd |-> JNum(50), apy |-> JNum(2)]) >>)]))

YieldInvocations ==
    { [t |-> "pending", adapter |-> "yields", arg |-> JText(slug), up |-> PoolsUp(names)] :
        slug \in YieldSlugs, names \in PoolLists }
    \cup { [t |-> "pending", adapter |-> "yields", arg |-> JText(ExampleSlug),
            up |-> ExamplePools] }

\* Pools without a usable project name and slugs with an empty token: a pool
\* is one with no project key, with the project '', or named ko or o; a slug
\* has no hyphen, or a leading, a trailing or a doubled one.
HyphenSlugs ==
    { << "r", "a", "y" >>, << "-", "k" >>, << "k", "-" >>, << "k", "-", "-", "b" >> }
PoolKinds ==
    { [has |-> FALSE, name |-> << >>], [has |-> TRUE, name |-> << >>],
      [has |-> TRUE, name |-> << "k", "o" >>], [has |-> TRUE, name |-> << "o" >>] }
KindPool(kind, i) ==
    IF kind.has THEN Pool(kind.name, i)
    ELSE JObj([tvlUsd |-> JNum(PoolTvl(i)), apy |-> JNum(i)])
KindsUp(kinds) == UpOk(JObj([data |-> JList([i \in 1..Len(kinds) |-> KindPool(kinds[i], i)])]))
NamelessInvocations ==
    { [t |-> "pending", adapter |-> "yields", arg |-> JText(slug), up |-> KindsUp(kinds)] :
        slug \in HyphenSlugs, kinds \in [1..MaxPools -> PoolKinds] }

\* The price and volume series of the market chart: at most MaxSeries points
\* each, the point i half a second after the second i, with the price i and
\* the volume 10 + i
MaxSeries == 8
PricePoint(i) == JList(<< JNum(MsPerSecond * i + MsPerSecond \div 2), JNum(i) >>)
VolumePoint(i) == JList(<< JNum(MsPerSecond * i + MsPerSecond \div 2), JNum(10 + i) >>)
SeriesUp(np, nv) ==
    UpOk(JObj([prices |-> JList([i \in 1..np |-> PricePoint(i)]),
               total_volumes |-> JList([i \in 1..nv |-> VolumePoint(i)])]))
HistoryInvocations ==
    { [t |-> "pending", adapter |-> "historical", arg |-> ArgOf("historical"),
       up |-> SeriesUp(np, nv)] : np \in 0..MaxSeries, nv \in 0..MaxSeries }

\* The mindshare series of Kaito: at most MaxSeries entries, the entry i with
\* the mindshare i
MindshareUp(n) ==
    UpOk(JObj([result |-> JObj([result |->
        JList([i \in 1..n |-> JObj([mindshare |-> JNum(i)])])])]))
MindshareInvocations ==
    { [t |-> "pending", adapter |-> "mindshare", arg |-> ArgOf("mindshare"),
       up |-> MindshareUp(n)] : n \in 0..MaxSeries }

\* The NFT adapter asked without a collection address: None, or ''
NoAddress == { JNull, JStr("") }
NoAddressInvocations ==
    { [t |-> "pending", adapter |-> "nft", arg |-> address, up |-> up] :
        address \in NoAddress, up \in { UpOk(WellFormed("nft")), Up("timeout", 0, JNull) } }

\* The invocations to make
Invocations ==
    UNION { { [t |-> "pending", adapter |-> a, arg |-> ArgOf(a), up |-> up] :
                up \in Responses(a) } : a \in Adapters }
    \cup YieldInvocations \cup HistoryInvocations \cup MindshareInvocations
    \cup NoAddressInvocations \cup NamelessInvocations

\* make_request or the adapter of a data type, applied
InvokeAdapter(adapter, arg, up) ==
    IF adapter = "make_request" THEN make_request(arg.s, NoHeaders, up)
    ELSE Invoke(adapter, arg, up)

\* The invocation i, made: what it answered and the requests it sent
Made(i, out) ==
    [ t |-> "done", adapter |-> i.adapter, arg |-> i.arg, up |-> i.up,
      res |-> out.res, reqs |-> out.reqs ]

\* The pending invocation is made.
ApplyAdapter ==
    /\ program = "adapters"
    /\ inv.t = "pending"
    /\ inv' = Made(inv, InvokeAdapter(inv.adapter, inv.arg, inv.up))
    /\ UNCHANGED << table_exists, client_data, price_history, now, latest >>
    /\ StoreFrame

InitAdapters ==
    /\ bearer_token \in {"", "token"}
    /\ inv \in Invocations
    /\ Fresh("adapters")

NextAdapters == ApplyAdapter

SpecAdapters == InitAdapters /\ [][NextAdapters]_vars

(***************************************************************************)
(* A session of the dashboard on its Historical Prices tab: main() has     *)
(* opened the store with init_database, which does not create the table    *)
(* price_history; the user presses "Update Historical Data" and the tab    *)
(* reads the points of the selected clients with get_historical_data.      *)
(***************************************************************************)

SecondsPerDay == 86400

\* Two of the time ranges of the tab's selectbox
DaysOptions == { 7, 30 }

\* The order of the client names under SQLite's BINARY collation
NameRank == [Kaito |-> 1, Pengu |-> 2, Raydium |-> 3, Sophon |-> 4]

\* int((datetime.now() - timedelta(days=days)).timestamp())
cutoff_timestamp(clock, days) == CurrentTimestamp(clock) - days * SecondsPerDay

\* ORDER BY client_name, timestamp. The rows of a client have one coin_id,
\* so the UNIQUE constraint leaves no two rows with the same sort key.
RowBefore(a, b) ==
    \/ NameRank[a.client_name] < NameRank[b.client_name]
    \/ a.client_name = b.client_name /\ a.timestamp.n <= b.timestamp.n
RECURSIVE OrderBy(_)
OrderBy(rows) ==
    IF rows = {} THEN << >>
    ELSE LET first == CHOOSE r \in rows : \A q \in rows : RowBefore(r, q)
         IN << first >> \o OrderBy(rows \ {first})

\* get_historical_data(client_names, days): the rows from the cutoff on, of
\* the clients of client_names when the list is not empty ("if
\* client_names:"), in order; the query raises when the table is missing.
get_historical_data(exists, table, client_names, days, clock) ==
    IF ~exists THEN [raised |-> Raise("DatabaseError"), df |-> << >>]
    ELSE [ raised |-> Absent,
           df |-> OrderBy({ row \in table :
                    /\ row.timestamp.n >= cutoff_timestamp(clock, days)
                    /\ client_names # {} => row.client_name \in client_names }) ]

\* The selections of the sidebar's multiselect: any set of clients
Selections == SUBSET { ClientNames[i] : i \in 1..NumClients }

\* The answers of CoinGecko to the market chart request in a session
SessionAnswers ==
    { SeriesUp(2, 2), SeriesUp(1, 1), SeriesUp(0, 0), Up("timeout", 0, JNull), UpOk(JNull) }

\* The record of what the handler met for a client: how the fetch ended (or
\* "skipped", "unreached") and the points it returned
Fetched(outcome, points) == [outcome |-> outcome, points |-> points]

\* The handler of "Update Historical Data" for the client n, given what the
\* fetch answered: an exception of the adapter or of save_historical_data
\* ends the handler; a failure is passed over; a success is saved.
update_client(exists, before, cfg, n, res, saved) ==
    IF IsRaise(res)
    THEN [raised |-> res, table |-> before.table,
          outcomes |-> Append(before.outcomes, Fetched("raised", << >>))]
    ELSE IF ~res.env.success
    THEN [raised |-> Absent, table |-> before.table,
          outcomes |-> Append(before.outcomes, Fetched("error", << >>))]
    ELSE [raised |-> saved.raised, table |-> saved.table,
          outcomes |-> Append(before.outcomes, Fetched("ok", res.env.data.historical_prices))]

\* What is saved for the client n when its fetch succeeded
save_fetched(exists, table, cfg, n, res) ==
    IF IsRaise(res) THEN [raised |-> res, table |-> table]
    ELSE IF ~res.env.success THEN [raised |-> Absent, table |-> table]
    ELSE save_historical_data(exists, table, ClientNames[n], cfg[n].coingecko_id,
                              res.env.data.historical_prices)

\* The step of the handler's loop for the client n, after the clients before
update_fetched(exists, before, cfg, n, res) ==
    update_client(exists, before, cfg, n, res,
                  save_fetched(exists, before.table, cfg, n, res))
update_next(exists, cfg, days, ups, n, before) ==
    IF before.raised # Absent
    THEN [before EXCEPT !.outcomes = Append(before.outcomes, Fetched("unreached", << >>))]
    ELSE IF ~Has(cfg[n], "coingecko_id")
    THEN [before EXCEPT !.outcomes = Append(before.outcomes, Fetched("skipped", << >>))]
    ELSE update_fetched(exists, before, cfg, n,
            fetch_coingecko_historical_data(cfg[n].coingecko_id, days, ups[n]).res)

\* The loop of the handler over the first n clients of CLIENTS
RECURSIVE update_historical(_, _, _, _, _, _)
update_historical(exists, table, cfg, days, ups, n) ==
    IF n = 0 THEN [raised |-> Absent, table |-> table, outcomes |-> << >>]
    ELSE update_next(exists, cfg, days, ups, n,
                     update_historical(exists, table, cfg, days, ups, n - 1))

\* The store and the record of the handler after it ran
AfterUpdateHistorical(out) ==
    /\ price_history' = out.table
    /\ inv' = [t |-> "update_historical_data", raised |-> out.raised # Absent,
               outcomes |-> out.outcomes]

\* The button "Update Historical Data" is pressed.
UpdateHistoricalData ==
    /\ program = "session"
    /\ \E days \in DaysOptions, ups \in [1..NumClients -> SessionAnswers] :
          AfterUpdateHistorical(update_historical(table_exists, price_history, config,
                                                  days, ups, NumClients))
    /\ UNCHANGED << table_exists, client_data, now, latest >>
    /\ StoreFrame

\* The record of a read of the tab
AfterGetHistorical(names, days, out) ==
    inv' = [t |-> "get_historical_data", client_names |-> names, days |-> days,
            raised |-> out.raised # Absent, df |-> out.df]

\* The tab reads the points of the selected clients.
GetHistoricalData ==
    /\ program = "session"
    /\ \E names \in Selections, days \in DaysOptions :
          AfterGetHistorical(names, days,
              get_historical_data(table_exists, price_history, names, days, now))
    /\ UNCHANGED << table_exists, client_data, price_history, now, latest >>
    /\ StoreFrame

\* The session starts a week and two or three seconds after the epoch, so
\* that the cutoff of the 7-day range falls among the instants of the points
SessionStarts ==
    { TicksPerSecond * (7 * SecondsPerDay + 2), TicksPerSecond * (7 * SecondsPerDay + 3) }

InitSession ==
    /\ bearer_token = "token"
    /\ config \in Configs
    /\ table_exists \in BOOLEAN
    /\ client_data = << >>
    /\ fetch_history = << >>
    /\ price_history = {}
    /\ now \in SessionStarts
    /\ program = "session"
    /\ pc = "call"
    /\ idx = 1
    /\ step = 1
    /\ result = NoResult
    /\ total_apis_called = 0
    /\ errors_count = 0
    /\ calls = << >>
    /\ faults = 0
    /\ inv = NoInvocation
    /\ latest = {}

NextSession == UpdateHistoricalData \/ GetHistoricalData

SpecSession == InitSession /\ [][NextSession]_vars

(***************************************************************************)
(* Properties of a collection pass.                                        *)
(***************************************************************************)

\* The step s is configured for the client i: its "if config.get(...)" holds
Configured(i, s) == s \in AdapterSteps /\ Has(config[i], Schedule[s].needs)

\* The adapter of the step s has been called for the client i
Attempted(i, s) ==
    \E k \in 1..Len(calls) : calls[k].client = i /\ calls[k].dtype = Schedule[s].dtype

\* The loop has gone past the try block of the step s of the client i
Passed(i, s) == i < idx \/ (i = idx /\ (s < step \/ (s = step /\ pc = "sleep")))

\* The loop is over: every client has been gone through
LoopOver == \A i \in 1..NumClients, s \in AdapterSteps : Configured(i, s) => Attempted(i, s)

\* The calls whose try block is over (the last call may still be in hand)
Settled == { k \in 1..Len(calls) : k < Len(calls) \/ pc # "save" }

C2_TotalCountsEveryAttempt ==
    program = "dashboard" /\ fetch_history # << >> =>
        /\ fetch_history[1].total_apis_called = Len(calls)
        /\ (\E k \in 1..Len(calls) : calls[k].outcome # "ok")
              => fetch_history[1].errors_count # 0

\* C3: every adapter call that ends in an error appends a Snapshot of its
\* client and data type with success = false and an error message.
C3_FailedCallHasFailedSnapshot ==
    program = "dashboard" =>
        \A k \in Settled :
            calls[k].outcome # "ok" =>
                \E n \in 1..Len(client_data) :
                    /\ client_data[n].client_name = ClientNames[calls[k].client]
                    /\ client_data[n].data_type = calls[k].dtype
                    /\ ~client_data[n].success
                    /\ client_data[n].error_message # JNull

\* C6: an adapter is called for a client only if the client's configuration
\* holds the identifier the adapter needs, in the pass and in
\* fetch_all_protocol_data alike.
C6_CalledOnlyWithIdentifier ==
    \A k \in 1..Len(calls) :
        /\ Has(config[calls[k].client], IdentifierOf(calls[k].dtype))
        /\ calls[k].arg # JNull

\* C7: a pass appends exactly one FetchRun row, and only after the last
\* adapter call of the last client has been made.
C7_OneFetchRunAfterLastCall ==
    program = "dashboard" =>
        /\ Len(fetch_history) = IF pc = "done" THEN 1 ELSE 0
        /\ fetch_history # << >> => LoopOver /\ Settled = 1..Len(calls)
        /\ pc = "history" => LoopOver /\ Settled = 1..Len(calls)

\* A finished pass with its FetchRun row, after calls for every client
C7_Witness ==
    /\ program = "dashboard" /\ pc = "done" /\ Len(fetch_history) = 1
    /\ \A i \in 1..NumClients : \E k \in 1..Len(calls) : calls[k].client = i

\* C8: when the process is terminated during a pass, the Snapshots committed
\* before the termination are in the store (one for every call counted, at
\* least), and there is no FetchRun row of the pass.
C8_TerminatedPassKeepsSnapshots ==
    pc = "killed" =>
        /\ fetch_history = << >>
        /\ Len(client_data) >= total_apis_called
        /\ \A n \in 1..Len(client_data) :
              \E k \in 1..Len(calls) :
                  /\ client_data[n].client_name = ClientNames[calls[k].client]
                  /\ client_data[n].data_type = calls[k].dtype
                  /\ client_data[n].success = (calls[k].outcome = "ok")

\* A pass terminated after the Snapshots of two clients were committed
C8_Witness ==
    /\ pc = "killed" /\ idx = NumClients
    /\ total_apis_called >= 2
    /\ \E n \in 1..Len(client_data) : client_data[n].client_name = ClientNames[1]

(***************************************************************************)
(* Properties of the store operations.                                     *)
(***************************************************************************)

\* Two rows of price_history with the same (client_name, coin_id, timestamp)
SameKey(r1, r2) ==
    r1.client_name = r2.client_name /\ r1.coin_id = r2.coin_id /\ r1.timestamp = r2.timestamp

\* A table with at most one row for each key
KeyUnique(table) == \A r1 \in table, r2 \in table : SameKey(r1, r2) => r1 = r2

\* The table holds, for the last point of each instant of the batch, a row
\* with that point's price and volume
LastWriteWins(table, client_name, coin_id, batch) ==
    \A n \in 1..Len(batch) :
        (\A m \in (n + 1)..Len(batch) : batch[m].timestamp # batch[n].timestamp)
        => [ client_name |-> client_name, coin_id |-> coin_id,
             timestamp |-> batch[n].timestamp, price_usd |-> batch[n].price,
             volume_24h |-> batch[n].volume_24h ] \in table

\* What C4 says of one more batch saved into a table
UpsertLaw(table, client_name, coin_id, batch) ==
    LET once == save_historical_data(TRUE, table, client_name, JStr(coin_id), batch) IN
    /\ KeyUnique(once.table)
    /\ once.raised = Absent => LastWriteWins(once.table, client_name, coin_id, batch)
    /\ once.raised # Absent => once.table = table
    /\ save_historical_data(TRUE, once.table, client_name, JStr(coin_id), batch).table
          = once.table

\* C4: after any sequence of save_historical_data calls, price_history holds
\* at most one row for each (client_name, coin_id, timestamp), that row has
\* the price and volume of the latest write of the key, and saving the same
\* batch again leaves the table as it is.
C4_UpsertIsUniqueAndIdempotent ==
    program = "history" =>
        /\ KeyUnique(price_history)
        /\ \A i \in 1..NumClients, batch \in Batches :
              UpsertLaw(price_history, ClientNames[i], CoinIds[i], batch)

\* A save that replaced a row of the table
C4_Witness ==
    /\ program = "history" /\ inv.t = "save_historical_data"
    /\ inv.replaced /\ ~inv.raised
    /\ Cardinality(price_history) >= 2

\* The rows of client_data of the pair of row n that pass the filters of the
\* last query
SamePairSelected(n) ==
    { m \in 1..Len(client_data) :
        /\ client_data[m].client_name = client_data[n].client_name
        /\ client_data[m].data_type = client_data[n].data_type
        /\ Truthy(inv.client_name) => client_data[m].client_name = inv.client_name.s
        /\ Truthy(inv.data_type) => client_data[m].data_type = inv.data_type.s }

\* C5: get_latest_data returns, for each (client, data_type) pair with a row
\* that passes the filters, exactly one row, and that row has the greatest
\* timestamp of the pair's rows; it returns nothing else.
C5_LatestIsNewestOfEachPair ==
    program = "latest" /\ inv.t = "get_latest_data" =>
        /\ \A n \in 1..Len(client_data) :
              SamePairSelected(n) # {} =>
                  /\ Cardinality(latest \cap SamePairSelected(n)) = 1
                  /\ \A k \in latest \cap SamePairSelected(n), m \in SamePairSelected(n) :
                        client_data[k].timestamp >= client_data[m].timestamp
        /\ \A k \in latest : k \in 1..Len(client_data) /\ k \in SamePairSelected(k)

\* An unfiltered query over a table where a pair has rows of two instants
C5_Witness ==
    /\ program = "latest" /\ inv.t = "get_latest_data" /\ inv.client_name = JNull
    /\ \E n \in latest : \E m \in SamePairSelected(n) :
          client_data[m].timestamp < client_data[n].timestamp
    /\ Cardinality(latest) >= 2

(***************************************************************************)
(* Properties of the adapters.                                             *)
(***************************************************************************)

\* The GET did not end in a 2xx answer: a timeout, a connection error, or
\* another status
TransportFailure(up) == up.kind # "http" \/ up.status < 200 \/ up.status > 299

\* An answer that is a failure envelope with an error text and no data
IsFailure(res) ==
    /\ ~IsRaise(res)
    /\ ~res.env.success
    /\ res.env.data = JNull
    /\ Truthy(res.env.error)

\* The upstream answered with an error status, or with a malformed body
MalformedOrError(adapter, up) ==
    /\ up.kind = "http"
    /\ \/ up.status >= 400
       \/ up.status = 200 /\ up.body \in Malformed(adapter)

\* C9: make_request sends exactly one GET, and when the GET ends in a timeout,
\* a connection error or a status that is not 2xx, it returns a failure
\* envelope (success = false, no data, an error text) and does not raise.
C9_TransportFailureIsFailureEnvelope ==
    program = "adapters" /\ inv.t = "done" /\ inv.adapter = "make_request" =>
        /\ Len(inv.reqs) = 1
        /\ TransportFailure(inv.up) => IsFailure(inv.res)

\* C10: an adapter whose upstream answers with an error status or a
\* malformed body returns success = false with a non-empty error message,
\* and does not raise.
C10_MalformedAnswerIsFailure ==
    program = "adapters" /\ inv.t = "done" /\ inv.adapter # "make_request"
    /\ MalformedOrError(inv.adapter, inv.up) =>
        /\ ~IsRaise(inv.res)
        /\ ~inv.res.env.success
        /\ Truthy(inv.res.env.error)

\* A number that is zero, an exact quotient included
IsZero(v) == (v.t = "num" /\ v.n = 0) \/ (v.t = "rat" /\ v.num = 0)

\* C11: an adapter whose upstream answers 200 with a body of the expected
\* shape that leaves out every optional field returns success = true, and
\* every numeric field of its payload that comes from an omitted optional
\* field is zero.
C11_OmittedNumericIsZero ==
    program = "adapters" /\ inv.t = "done" /\ inv.adapter # "make_request"
    /\ inv.up = UpOk(SparseBody(inv.adapter))
    /\ (inv.adapter \in {"mindshare", "engagement"} => bearer_token # "") =>
        /\ ~IsRaise(inv.res)
        /\ inv.res.env.success
        /\ \A f \in OptionalNumeric(inv.adapter) : IsZero(inv.res.env.data[f])

\* C12: every envelope that make_request or an adapter returns has, with
\* success = true, a payload and no error and, with success = false, no
\* payload and a non-empty error message.
C12_ExactlyOneOfPayloadAndError ==
    program = "adapters" /\ inv.t = "done" /\ ~IsRaise(inv.res) =>
        IF inv.res.env.success
        THEN inv.res.env.data # JNull /\ inv.res.env.error = JNull
        ELSE inv.res.env.data = JNull /\ Truthy(inv.res.env.error)

(***************************************************************************)
(* The matching rules of the yield pools, as the specification words them. *)
(***************************************************************************)

\* a occurs in b as a run of consecutive characters
SubstringOf(a, b) ==
    \E k \in 0..(Len(b) - Len(a)) : \A j \in 1..Len(a) : b[k + j] = a[j]

\* The hyphen-delimited tokens of a slug: its longest runs without a hyphen
IsToken(slug, a, b) ==
    /\ a <= b + 1
    /\ \A j \in a..b : slug[j] # "-"
    /\ (a = 1 \/ slug[a - 1] = "-")
    /\ (b = Len(slug) \/ slug[b + 1] = "-")
Tokens(slug) ==
    { SubSeq(slug, q[1], q[2]) :
        q \in { r \in (1..(Len(slug) + 1)) \X (0..Len(slug)) : IsToken(slug, r[1], r[2]) } }

PrimaryRule(slug, name) ==
    \/ Lower(slug) = Lower(name)
    \/ SubstringOf(Lower(slug), Lower(name))
    \/ SubstringOf(Lower(name), Lower(slug))
    \/ StripHyphens(Lower(slug)) = StripHyphens(Lower(name))

FallbackRule(slug, name) == \E token \in Tokens(Lower(slug)) : SubstringOf(token, Lower(name))

\* The pools to select from a list of project names: those of the primary
\* rule, and those of the fallback rule only when the primary rule has none
PrimarySet(slug, names) == { i \in 1..Len(names) : PrimaryRule(slug, names[i]) }
FallbackSet(slug, names) == { i \in 1..Len(names) : FallbackRule(slug, names[i]) }
Selection(slug, names) ==
    IF PrimarySet(slug, names) # {} THEN PrimarySet(slug, names) ELSE FallbackSet(slug, names)

\* The sum of f over a finite set of indices
RECURSIVE SumOver(_, _)
SumOver(S, f) ==
    IF S = {} THEN 0 ELSE LET i == CHOOSE j \in S : TRUE IN f[i] + SumOver(S \ {i}, f)

\* The invocation asked the yields adapter for a slug against a pool list
YieldsAsked(slug, names) ==
    /\ program = "adapters" /\ inv.t = "done" /\ inv.adapter = "yields"
    /\ inv.arg = JText(slug) /\ inv.up = PoolsUp(names)

\* C13: fetch_defillama_yields_data selects exactly the pools whose
\* lower-cased project name equals the lower-cased slug, contains it, is
\* contained in it, or equals it once hyphens are stripped; the pools whose
\* name contains a hyphen-delimited token of the slug are selected only when
\* no pool matches by those rules, and the two sets are never mixed.  (The TVL
\* of the pool i is 2^(i-1), so the total tells the selected set.)
C13_SelectsPrimaryElseFallback ==
    \A slug \in YieldSlugs, names \in PoolLists :
        YieldsAsked(slug, names) =>
            /\ ~IsRaise(inv.res)
            /\ inv.res.env.success = (Selection(slug, names) # {})
            /\ inv.res.env.success =>
                  inv.res.env.data.total_staking_tvl =
                      JNum(SumOver(Selection(slug, names), [i \in 1..Len(names) |-> PoolTvl(i)]))

\* The slug r-b against the pools rb (a primary match) and ab (a match of the
\* fallback rule only): the first pool alone is selected
C13_Witness ==
    /\ YieldsAsked(<< "R", "-", "B" >>, << << "r", "b" >>, << "a", "b" >> >>)
    /\ inv.res.env.success
    /\ inv.res.env.data.pool_count = JNum(1)
    /\ FallbackSet(<< "R", "-", "B" >>, << << "r", "b" >>, << "a", "b" >> >>) = {1, 2}

\* The aggregate of the pools S of a list of n pools
Aggregate(S, n) ==
    [ total_staking_tvl |-> JNum(SumOver(S, [i \in 1..n |-> PoolTvl(i)])),
      average_apy |-> Rat(SumOver(S, [i \in 1..n |-> i]), Cardinality(S)),
      pool_count |-> JNum(Cardinality(S)) ]

\* The example of the specification has been run
ExampleAsked ==
    /\ program = "adapters" /\ inv.t = "done" /\ inv.adapter = "yields"
    /\ inv.arg = JText(ExampleSlug) /\ inv.up = ExamplePools

\* C14: when at least one pool is matched, fetch_defillama_yields_data
\* returns success = true with the sum of the matched pools' TVL, the sum of
\* their APYs divided by their number, and their number (at least 1); when no
\* pool is matched it returns a failure, never a success of zeros.  For the
\* pools raydium-amm (100, 5) and other (50, 2) and the slug raydium the
\* result is TVL 100, APY 5, count 1.
C14_AggregatesOfMatchedPools ==
    /\ \A slug \in YieldSlugs, names \in PoolLists :
          YieldsAsked(slug, names) =>
              IF Selection(slug, names) # {}
              THEN /\ ~IsRaise(inv.res)
                   /\ inv.res.env.success
                   /\ inv.res.env.data = Aggregate(Selection(slug, names), Len(names))
                   /\ inv.res.env.data.pool_count.n >= 1
              ELSE IsFailure(inv.res)
    /\ ExampleAsked =>
          /\ ~IsRaise(inv.res)
          /\ inv.res.env.success
          /\ inv.res.env.data = [ total_staking_tvl |-> JNum(100), average_apy |-> Rat(5, 1),
                                  pool_count |-> JNum(1) ]

\* The slug ray against the pools ray-a and r-ay, both matched: TVL 1 + 2,
\* APY (1 + 2) / 2, count 2
C14_Witness ==
    /\ YieldsAsked(<< "r", "a", "y" >>, << << "r", "a", "y", "-", "a" >>, << "r", "-", "a", "y" >> >>)
    /\ inv.res.env.success
    /\ inv.res.env.data.total_staking_tvl = JNum(3)
    /\ inv.res.env.data.average_apy = Rat(3, 2)

\* The invocation asked the price history adapter against a price series of
\* np points and a volume series of nv points
HistoryAsked(np, nv) ==
    /\ program = "adapters" /\ inv.t = "done" /\ inv.adapter = "historical"
    /\ inv.up = SeriesUp(np, nv)

\* C15: for price and volume series of any lengths,
\* fetch_coingecko_historical_data returns as many points as there are
\* prices, in the upstream's order; the point i has the timestamp
\* floor(ms / 1000) of the i-th price, the i-th price, and the i-th volume if
\* there is one and 0 otherwise; data_points is that length.
C15_PointsZipPricesWithVolumes ==
    \A np \in 0..MaxSeries, nv \in 0..MaxSeries :
        HistoryAsked(np, nv) =>
            /\ ~IsRaise(inv.res)
            /\ inv.res.env.success
            /\ inv.res.env.data.data_points = JNum(np)
            /\ inv.res.env.data.historical_prices =
                  [i \in 1..np |-> [ timestamp |-> JNum(i), price |-> JNum(i),
                                     volume_24h |-> JNum(IF i <= nv THEN 10 + i ELSE 0) ]]

\* Five prices and three volumes: five points, the last two with the volume 0
C15_Witness ==
    /\ HistoryAsked(5, 3)
    /\ Len(inv.res.env.data.historical_prices) = 5
    /\ inv.res.env.data.historical_prices[3].volume_24h = JNum(13)
    /\ inv.res.env.data.historical_prices[4].volume_24h = JNum(0)
    /\ inv.res.env.data.historical_prices[5].volume_24h = JNum(0)

\* The invocation asked the mindshare adapter, with a bearer token, against a
\* series of n entries
MindshareAsked(n) ==
    /\ program = "adapters" /\ inv.t = "done" /\ inv.adapter = "mindshare"
    /\ bearer_token # "" /\ inv.up = MindshareUp(n)

\* The smaller of two numbers
Min(a, b) == IF a <= b THEN a ELSE b

\* C20: for a mindshare series 1, 2, ..., n of any length n >= 0,
\* fetch_kaito_mindshare_data returns current_mindshare = the last value,
\* avg_mindshare = the sum over n (both 0 when n = 0), data_points = n, and
\* mindshare_trend = the last min(7, n) values in their original order.
C20_MindshareStatistics ==
    \A n \in 0..MaxSeries :
        MindshareAsked(n) =>
            /\ ~IsRaise(inv.res)
            /\ inv.res.env.success
            /\ inv.res.env.data.current_mindshare = JNum(n)
            /\ inv.res.env.data.avg_mindshare =
                  IF n = 0 THEN JNum(0) ELSE Rat((n * (n + 1)) \div 2, n)
            /\ inv.res.env.data.data_points = JNum(n)
            /\ inv.res.env.data.mindshare_trend =
                  [j \in 1..Min(7, n) |-> JNum(n - Min(7, n) + j)]

\* A series of eight entries: the trend is its last seven values, 2 to 8
C20_Witness ==
    /\ MindshareAsked(8)
    /\ Len(inv.res.env.data.mindshare_trend) = 7
    /\ inv.res.env.data.mindshare_trend[1] = JNum(2)
    /\ inv.res.env.data.mindshare_trend[7] = JNum(8)

\* The invocation lacks what the adapter is configured with: the bearer token
\* of Kaito, or the collection address
Unconfigured ==
    \/ inv.adapter \in {"mindshare", "engagement"} /\ bearer_token = ""
    \/ inv.adapter = "nft" /\ inv.arg \in NoAddress

\* C16: fetch_reservoir_nft_stats without a collection address (absent or
\* empty), and fetch_kaito_mindshare_data and fetch_kaito_engagement_data
\* without a bearer token, return a failure with an error message and send
\* no HTTP request.
C16_ConfigurationErrorSendsNothing ==
    program = "adapters" /\ inv.t = "done" /\ Unconfigured =>
        /\ IsFailure(inv.res)
        /\ inv.reqs = << >>

\* The NFT adapter has been asked with the empty address, against an upstream
\* that would have answered
C16_Witness ==
    /\ program = "adapters" /\ inv.t = "done" /\ inv.adapter = "nft"
    /\ inv.arg = JStr("") /\ inv.up.kind = "http"
    /\ inv.reqs = << >>

(***************************************************************************)
(* Properties of the Snapshots over the passes.                            *)
(***************************************************************************)

\* s is the beginning of t
IsPrefix(s, t) == Len(s) <= Len(t) /\ SubSeq(t, 1, Len(s)) = s

\* The Snapshots of the client i and the data type of the step s
SnapshotsOf(i, s) ==
    { n \in 1..Len(client_data) :
        /\ client_data[n].client_name = ClientNames[i]
        /\ client_data[n].data_type = Schedule[s].dtype }

\* No adapter call has raised
NoneRaised == \A k \in 1..Len(calls) : calls[k].outcome # "raised"

\* The passes made so far are all complete
PassesComplete == program = "dashboard" /\ pc = "done"

ReturnedCalls == { k \in Settled : calls[k].outcome # "raised" }
Rank(k) == Cardinality({ j \in ReturnedCalls : j <= k })

\* C18: within a pass, the Snapshot of an adapter call is in the store before
\* the pacing sleep that follows the call and before the next call: whenever
\* the pass is at a sleep or at a later call, the Snapshots of the calls made
\* so far that returned a result are all stored, in the order of the calls,
\* and nothing else is.
C18_SnapshotStoredBeforeSleep ==
    program = "dashboard" =>
        /\ Len(client_data) = Cardinality(ReturnedCalls)
        /\ \A k \in ReturnedCalls :
              /\ client_data[Rank(k)].client_name = ClientNames[calls[k].client]
              /\ client_data[Rank(k)].data_type = calls[k].dtype
              /\ client_data[Rank(k)].success = (calls[k].outcome = "ok")

\* The pass is at the pacing sleep of its third call or a later one, which
\* returned a failure: the Snapshot of that call is the last row of the store
C18_Witness ==
    /\ program = "dashboard" /\ pc = "sleep" /\ Schedule[step].sleep > 0
    /\ Len(calls) >= 3
    /\ calls[Len(calls)].outcome = "error"
    /\ client_data # << >>
    /\ client_data[Len(client_data)].data_type = calls[Len(calls)].dtype
    /\ ~client_data[Len(client_data)].success

(***************************************************************************)
(* Properties of the price points of a pass.                               *)
(***************************************************************************)

\* The HistoricalPricePoint rows of the client i
StoredPoints(i) == { row \in price_history : row.client_name = ClientNames[i] }

\* The Snapshots of the historical fetches of the client i that succeeded
HistoricalSuccesses(i) ==
    { n \in 1..Len(client_data) :
        /\ client_data[n].client_name = ClientNames[i]
        /\ client_data[n].data_type = "historical"
        /\ client_data[n].success }

\* The rows of the points that the historical fetches of the client i returned
FetchedPoints(i) ==
    UNION { { [ client_name |-> ClientNames[i], coin_id |-> config[i].coingecko_id.s,
                timestamp |-> client_data[n].data.historical_prices[j].timestamp,
                price_usd |-> client_data[n].data.historical_prices[j].price,
                volume_24h |-> client_data[n].data.historical_prices[j].volume_24h ] :
              j \in 1..Len(client_data[n].data.historical_prices) } :
            n \in HistoricalSuccesses(i) }

HistoricalRead == program = "session" /\ inv.t = "get_historical_data" /\ ~inv.raised

\* The rows of a data frame, as a set
RowsOf(df) == { df[k] : k \in 1..Len(df) }

\* C21: get_historical_data(client_names, days) returns exactly the stored
\* points whose timestamp is within the trailing window of days and whose
\* client is in client_names, each once, ordered by client name and then by
\* ascending timestamp.
C21_WindowOfRequestedClientsInOrder ==
    HistoricalRead =>
        /\ RowsOf(inv.df) =
              { row \in price_history :
                  /\ row.timestamp.n >= CurrentTimestamp(now) - inv.days * SecondsPerDay
                  /\ row.client_name \in inv.client_names }
        /\ Len(inv.df) = Cardinality(RowsOf(inv.df))
        /\ \A j, k \in 1..Len(inv.df) :
              j < k =>
                  \/ NameRank[inv.df[j].client_name] < NameRank[inv.df[k].client_name]
                  \/ /\ inv.df[j].client_name = inv.df[k].client_name
                     /\ inv.df[j].timestamp.n < inv.df[k].timestamp.n

\* C27: get_historical_data never returns a point of a client that is not in
\* the requested set; when the requested set is empty it returns no points.
C27_NoPointOfUnrequestedClient ==
    HistoricalRead =>
        \A k \in 1..Len(inv.df) : inv.df[k].client_name \in inv.client_names

\* C28: in a session started through main(), the table price_history exists
\* before save_historical_data is executed: a successful historical fetch of
\* a pass that returned points has them stored, and a pass in which every
\* call succeeded records no error.
C28_TableExistsBeforeFirstUse ==
    program = "dashboard" =>
        /\ \A i \in 1..NumClients :
              FetchedPoints(i) # {} => table_exists /\ FetchedPoints(i) \subseteq price_history
        /\ fetch_history # << >> /\ (\A k \in 1..Len(calls) : calls[k].outcome = "ok")
              => fetch_history[1].errors_count = 0

\* The rows of a list of points of the client i
PointRows(i, points) ==
    { [ client_name |-> ClientNames[i], coin_id |-> CoinIds[i],
        timestamp |-> points[j].timestamp, price_usd |-> points[j].price,
        volume_24h |-> points[j].volume_24h ] : j \in 1..Len(points) }

\* C29: the Update Historical Data action changes only the table
\* price_history: it appends no Snapshot and no FetchRun row, and it upserts
\* the points of every client whose historical fetch succeeded.
C29_UpdateChangesPricePointsOnly ==
    program = "session" /\ inv.t = "update_historical_data" =>
        /\ client_data = << >>
        /\ fetch_history = << >>
        /\ \A i \in 1..NumClients :
              inv.outcomes[i].outcome = "ok" =>
                  PointRows(i, inv.outcomes[i].points) \subseteq price_history

\* C22: within a pass the calls are made one at a time (the one answer in
\* hand is handled before the next call), and between any two consecutive
\* adapter calls, within a client and from one client to the next, the clock
\* has advanced by a pacing sleep.
C22_SleepBetweenConsecutiveCalls ==
    program = "dashboard" =>
        /\ \A k \in 1..(Len(calls) - 1) : calls[k + 1].at > calls[k].at
        /\ (result # NoResult) <=> (pc = "save")
        /\ pc = "save" => calls # << >> /\ calls[Len(calls)].at = now

\* A pass with a call that raised and a call of the next client after it
C22_Witness ==
    /\ program = "dashboard"
    /\ \E k \in 1..(Len(calls) - 1) :
          /\ calls[k].outcome = "raised"
          /\ calls[k + 1].client # calls[k].client

\* The steps that call the CoinGecko source
CoinGeckoTypes == { "price", "comprehensive", "historical" }

\* C25: within a pass, whatever identifiers the clients have, the pacing
\* sleeps between any two consecutive CoinGecko calls (the last of one client
\* and the first of the next included) sum to 30 seconds at least.
C25_CoinGeckoCallsThirtySecondsApart ==
    program = "dashboard" => \A j, k \in DOMAIN calls :
        (j < k /\ calls[j].dtype \in CoinGeckoTypes /\ calls[k].dtype \in CoinGeckoTypes)
            => calls[k].at - calls[j].at >= 30 * TicksPerSecond

\* A pass of a client with a coin and nothing else, whose comprehensive call
\* comes 30 seconds after its price call, followed by a client with a coin:
\* the price call of the second comes 31 seconds after the historical call
\* of the first
C25_Witness ==
    \E j \in DOMAIN calls :
        /\ j + 3 \in DOMAIN calls
        /\ calls[j].dtype = "price"
        /\ calls[j + 1].dtype = "comprehensive"
        /\ calls[j + 1].at - calls[j].at = 30 * TicksPerSecond
        /\ calls[j + 2].dtype = "historical"
        /\ calls[j + 3].dtype = "price" /\ calls[j + 3].client # calls[j].client
        /\ calls[j + 3].at - calls[j + 2].at = 31 * TicksPerSecond

\* C23: in the FetchRun row of every pass the errors counted are at most the
\* calls counted, whatever mix of successes, failures and exceptions the
\* pass met.
C23_ErrorsAtMostCalls ==
    \A k \in DOMAIN fetch_history :
        fetch_history[k].errors_count <= fetch_history[k].total_apis_called

\* The endpoints of the social-analytics source (KAITO_BASE_URL)
KaitoUrls == { "kaito/ticker_mindshare_line", "kaito/ticker_engagement" }

\* C24: the Kaito bearer token and user id go to the Kaito endpoints only (no
\* request to another upstream carries the authorization or the user-id
\* header), and the headers an adapter passes to make_request are the ones
\* sent.
C24_KaitoCredentialsToKaitoOnly ==
    program = "adapters" /\ inv.t = "done" =>
        \A k \in DOMAIN inv.reqs :
            /\ inv.reqs[k].url \notin KaitoUrls =>
                  /\ "authorization" \notin DOMAIN inv.reqs[k].headers
                  /\ "user_id" \notin DOMAIN inv.reqs[k].headers
            /\ inv.reqs[k].passed # NoHeaders => inv.reqs[k].headers = inv.reqs[k].passed

\* The invocation asked the yields adapter for a slug against pools of the
\* given kinds
KindsAsked(slug, kinds) ==
    /\ program = "adapters" /\ inv.t = "done" /\ inv.adapter = "yields"
    /\ inv.arg = JText(slug) /\ inv.up = KindsUp(kinds)

\* The pools the answer aggregates, told by the total (the TVL of the pool i
\* is 2^(i-1))
Counted(n) ==
    IF IsRaise(inv.res) \/ ~inv.res.env.success THEN {}
    ELSE { i \in 1..n : (inv.res.env.data.total_staking_tvl.n \div PoolTvl(i)) % 2 = 1 }

\* A pool name matches a slug by a rule that holds for non-empty names and
\* non-empty tokens only
MatchesProperly(slug, name) ==
    /\ name # << >>
    /\ \/ PrimaryRule(slug, name)
       \/ \E token \in Tokens(Lower(slug)) \ { << >> } : SubstringOf(token, Lower(name))

\* C26: in fetch_defillama_yields_data a pool whose project name is missing
\* or empty is never counted as a match for a non-empty slug, and an empty
\* token of the slug (from a leading, trailing or doubled hyphen) never makes
\* a pool match in the fallback rule.
C26_EmptyNamesAndTokensNeverMatch ==
    \A slug \in HyphenSlugs, kinds \in [1..MaxPools -> PoolKinds] :
        KindsAsked(slug, kinds) =>
            \A i \in Counted(Len(kinds)) : MatchesProperly(slug, kinds[i].name)

(***************************************************************************)
(* Properties of two interleaved passes.                                   *)
(***************************************************************************)

\* The FetchRun row of a pass that made the calls cs
Tally(cs) ==
    [ clients_fetched |-> NumClients,
      total_apis_called |-> Cardinality({ k \in DOMAIN cs : cs[k].outcome # "raised" }),
      errors_count |-> Cardinality({ k \in DOMAIN cs : cs[k].outcome # "ok" }) ]

\* The calls cs of a session at p whose Snapshot write is over
Written(cs, p) ==
    { k \in DOMAIN cs : cs[k].outcome # "raised" /\ (k < Len(cs) \/ p # "save") }

\* How many Snapshots the store holds of a client, a data type and a success
\* flag, and how many such calls of a session have been written
Kept(i, dtype, ok) ==
    Cardinality({ n \in DOMAIN client_data :
        /\ client_data[n].client_name = ClientNames[i]
        /\ client_data[n].data_type = dtype
        /\ client_data[n].success = ok })
WrittenBy(cs, p, i, dtype, ok) ==
    Cardinality({ k \in Written(cs, p) :
        cs[k].client = i /\ cs[k].dtype = dtype /\ (cs[k].outcome = "ok") = ok })

\* How many FetchRun rows equal to row the store holds, and how many the
\* sessions that are over have to their name
RowsKept(row) == Cardinality({ k \in DOMAIN fetch_history : fetch_history[k] = row })
RowsDue(row) ==
    (IF pc = "done" /\ Tally(calls) = row THEN 1 ELSE 0)
    + (IF inv.pc = "done" /\ Tally(inv.calls) = row THEN 1 ELSE 0)

\* C30: when two passes run interleaved against the same store, the FetchRun
\* row of each pass counts the calls and the errors of that pass only, every
\* Snapshot written by either pass is kept, and price_history has one row at
\* most for a client, a coin and a timestamp.
C30_InterleavedPassesKeepTheirOwn ==
    program = "dashboard" /\ inv.t = "session" =>
        /\ \A row \in { fetch_history[k] : k \in DOMAIN fetch_history }
                        \cup { Tally(calls), Tally(inv.calls) } :
              RowsKept(row) = RowsDue(row)
        /\ \A i \in 1..NumClients, s \in AdapterSteps, ok \in BOOLEAN :
              Kept(i, Schedule[s].dtype, ok)
                  = WrittenBy(calls, pc, i, Schedule[s].dtype, ok)
                    + WrittenBy(inv.calls, inv.pc, i, Schedule[s].dtype, ok)
        /\ \A r1, r2 \in price_history :
              (r1.client_name = r2.client_name /\ r1.coin_id = r2.coin_id
                  /\ r1.timestamp = r2.timestamp) => r1 = r2

\* Both passes are over, their Snapshots alternate in the store, one of them
\* met an error and the other none, and both stored the same price point
C30_Witness ==
    /\ program = "dashboard" /\ inv.t = "session"
    /\ pc = "done" /\ inv.pc = "done"
    /\ Len(fetch_history) = 2
    /\ fetch_history[1].errors_count # fetch_history[2].errors_count
    /\ Len(client_data) >= 4
    /\ client_data[1].data_type = client_data[2].data_type
    /\ client_data[3].data_type = client_data[4].data_type
    /\ \E j \in DOMAIN calls, k \in DOMAIN inv.calls :
          /\ calls[j].dtype = "historical" /\ calls[j].outcome = "ok"
          /\ inv.calls[k].dtype = "historical" /\ inv.calls[k].outcome = "ok"
    /\ Cardinality(price_history) = 1

====
